---- MODULE Spec2Model ----
(***************************************************************************)
(* The idempotent deployment orchestrator of cognito-login.                *)
(*                                                                         *)
(* One orchestrator run is a blocking, single-threaded pipeline:           *)
(*   argument validation -> identity prober -> credential manager ->      *)
(*   template validation -> stack lifecycle controller -> outputs ->       *)
(*   frontend configuration -> build -> publish -> invalidation -> report. *)
(* The remote services (provisioning service, secret store, identity       *)
(* service, bucket, CDN) keep their state between runs; the run keeps      *)
(* nothing.                                                                *)
(*                                                                         *)
(* The stack steps (describe, change set, create, waits, outputs, build,   *)
(* publish, invalidation) follow infrastructure/cloudformation/            *)
(* deploy-cloudformation.sh.  The credential manager, the operator         *)
(* prompts and the delete-and-recreate branch belong to the enhanced       *)
(* deployment script, of which the repository sources hold only the        *)
(* README; they follow that README and the specification.                  *)
(*                                                                         *)
(* Further specifications over the same state: SpecTemplates (templates    *)
(* that omit an output), SpecConcurrent (two interleaved invocations),     *)
(* SpecDestroy (the deletion script of infrastructure/bin/app.ts) and      *)
(* SpecFrontend (the routes and the Dashboard of the web application).     *)
(***************************************************************************)
EXTENDS Integers, Sequences, FiniteSets, TLC

\* ------------------------------------------------------------------ bounds
MaxRuns == 2        \* orchestrator runs in one behaviour
MaxTemplate == 2    \* versions of the local template: 0 (invalid), 1..MaxTemplate
MaxSeed == 2        \* outcomes of the random source of the key generator
MaxPoll == 1        \* polls of a wait that still see IN_PROGRESS before timeout
MaxOrphans == 1     \* pending checkUser calls of Dashboards that were unmounted
MaxInflight == 1    \* requests still pending of auth forms that were unmounted

\* ------------------------------------------------------- program constants
MinKeyLength == 20          \* the 20-character minimum of an API key
GeneratedKeyLength == 32    \* auto-generated keys are 32 characters
MinPasswordLength == 8      \* formData.password.length < 8 is rejected

\* ---------------------------------------------------------------- strings
\* A credential is a sequence of one-character strings.
AlnumChars == {"a", "Z", "7"}
AlnumSeq == <<"a", "Z", "7">>

Repeat(ch, n) == [i \in 1..n |-> ch]

IsAlphanumeric(s) == \A i \in 1..Len(s) : s[i] \in AlnumChars

\* "no value": an absent argument, an absent secret
NoKey == <<>>

\* my-custom-api-key, the README's example of a custom key (17 characters)
ShortKey == <<"m","y","-","c","u","s","t","o","m","-","a","p","i","-","k","e","y">>
\* an operator-chosen key that meets the minimum length exactly
LongKey == Repeat("k", MinKeyLength)

ExplicitKeys == {NoKey, ShortKey, LongKey}

\* ------------------------------------------------------- stack status map
\* Raw status strings of the provisioning service; NOT_FOUND stands for the
\* describe call answering that the stack does not exist.
SuccessfulStates == {"CREATE_COMPLETE", "UPDATE_COMPLETE"}
FailedStates == {"CREATE_FAILED", "ROLLBACK_COMPLETE", "UPDATE_ROLLBACK_COMPLETE",
                 "UPDATE_ROLLBACK_FAILED", "DELETE_FAILED"}
InProgressStates == {"CREATE_IN_PROGRESS", "UPDATE_IN_PROGRESS", "DELETE_IN_PROGRESS"}
RawStatuses == SuccessfulStates \cup FailedStates \cup InProgressStates \cup {"NOT_FOUND"}

\* StackState of a raw status
Classify(raw) ==
    IF raw = "NOT_FOUND" THEN "ABSENT"
    ELSE IF raw \in SuccessfulStates THEN "SUCCEEDED"
    ELSE IF raw \in FailedStates THEN "FAILED"
    ELSE IF raw \in InProgressStates THEN "IN_PROGRESS"
    ELSE "UNRECOGNIZED"

\* Answers of describe-stacks that are no status: the call was refused for a
\* reason other than a missing stack.  The script discards the message
\* (2>/dev/null) and sees the exit code only.
DescribeErrors == {"Throttling"}

\* statuses CloudFormation reports that the README does not list
UnlistedStates == {"ROLLBACK_IN_PROGRESS"}

\* `aws cloudformation describe-stacks` exits 0 iff it answers with a stack
DescribeSucceeds(raw) == raw \notin {"NOT_FOUND"} \cup DescribeErrors

\* ---------------------------------------------------------- stack outputs
RequiredOutputKeys == {"UserPoolId", "UserPoolClientId", "WebsiteBucketName",
                       "CloudFrontDistributionId", "WebsiteURL"}

NoOutputs == [k \in {} |-> 0]

\* The outputs of the stack created as the gen-th stack of this name: resource
\* identifiers, which stay the same over updates and change on re-creation.
OutputsOfMutantWithKey(gen, key) ==
    [k \in RequiredOutputKeys \cup {"ApiKeyValue"} |->
        IF k = "ApiKeyValue" THEN key ELSE <<k, gen>>]

OutputsOf(gen, key) == [k \in RequiredOutputKeys |-> <<k, gen>>]

\* ------------------------------------------------------------------ bucket
\* the files of a frontend build
Files == {"index.html", "main.js", "asset-manifest.json", "service-worker.js"}

NoObject == [build |-> 0, cache |-> "none"]
EmptyBucket == [f \in Files |-> NoObject]

\* --------------------------------------------------------------- variables
VARIABLES
    \* remote state, kept between runs
    stackStatus,    \* raw status of the stack
    stackGen,       \* how many stacks of this name have been created
    deployed,       \* [template, key] of the last completed deployment
    pending,        \* [template, key] of the operation in progress
    secret,         \* value at the secret path, NoKey when absent
    instances,      \* identity-service instances in the region
    bucket,         \* per file of the site: the build it is from and its cache header
    invalidations,  \* [issued, completed] invalidations of the distribution
    \* local files, kept between runs
    envFile,        \* frontend/.env.production: the outputs it was written from
    buildDir,       \* frontend/build: the configuration it was built with
    \* one run
    pc,             \* position of the run in the pipeline
    runs,           \* runs started so far
    args,           \* [force, key, template] of the run
    credential,     \* the credential of the run
    seen,           \* [status, outputs] answered by describe before the decision
    outputs,        \* the outputs extracted or reported by the run
    calls,          \* remote calls the run has issued, in order
    prompts,        \* operator prompts shown by the run
    answers,        \* <<question, answer>> of each prompt of the run, in order
    polls,          \* polls of the current wait
    log,            \* operator-visible output of the run
    outcome,        \* [kind, exit, error] of the run
    pre,            \* remote state when the run started
    prev,           \* the previous run and whether anything happened since
    \* a second invocation of the script on the same account
    other,          \* the run variables of the invocation that is not scheduled
    \* the web application in the browser
    route,          \* the location the router shows
    session,        \* the signed-in user of the Amplify session, "none" without one
    dash,           \* the Dashboard component: its state and its pending calls
    orphans,        \* checkUser calls still pending of Dashboards since unmounted
    form,           \* the auth form at the current route: navigation state and useState
    inflight,       \* Amplify requests of the auth forms not yet settled
    timers,         \* setTimeout navigations not yet fired
    signedUp        \* the usernames whose signUp was accepted by the user pool

remoteVars == <<stackStatus, stackGen, deployed, pending, secret, instances,
                bucket, invalidations>>
runVars == <<pc, runs, args, credential, seen, outputs, calls, prompts, answers,
             polls, log, outcome, pre, prev>>
localVars == <<envFile, buildDir>>
\* what a step of the scheduled run does not touch
formVars == <<form, inflight, timers>>
frontendVars == <<route, session, dash, orphans, formVars, signedUp>>
backstage == <<other, frontendVars>>
vars == <<stackStatus, stackGen, deployed, pending, secret, instances,
          bucket, invalidations, envFile, buildDir,
          pc, runs, args, credential, seen, outputs, calls, prompts, answers,
          polls, log, outcome, pre, prev, other, route, session, dash, orphans,
          form, inflight, timers, signedUp>>

\* [issued, completed]: the latest invalidation created and the latest completed;
\* [dist, paths]: the distribution and the paths of the latest one
NoInvalidation == [issued |-> 0, completed |-> 0, dist |-> <<>>, paths |-> "none"]
NoDeployment == [template |-> 0, key |-> NoKey]
\* frontend/.env.production and frontend/build before the first run writes them
NoEnvFile == [pool |-> <<>>, client |-> <<>>]
NoBuildDir == [env |-> NoEnvFile, id |-> 0]
NoOutcome == [kind |-> "NONE", exit |-> -1, error |-> "none"]
\* the history of the previous run is kept only where a claim compares two runs
NoRun == [track |-> FALSE, ran |-> FALSE]
NoRunYet == [track |-> TRUE, ran |-> FALSE]
NoArgs == [force |-> FALSE, key |-> NoKey, template |-> 1]
NoSeen == [status |-> "NOT_FOUND", outputs |-> NoOutputs]
NoSnapshot == [status |-> "NOT_FOUND", secret |-> NoKey, instances |-> 0,
               stackGen |-> 0, deployed |-> NoDeployment]

\* The state of a fresh account and of an orchestrator that has not run.
InitRemote ==
    /\ stackStatus = "NOT_FOUND"
    /\ stackGen = 0
    /\ deployed = NoDeployment
    /\ pending = NoDeployment
    /\ secret = NoKey
    /\ instances \in {0, 1}
    /\ bucket = EmptyBucket
    /\ invalidations = NoInvalidation
    /\ envFile = NoEnvFile
    /\ buildDir = NoBuildDir

InitRun ==
    /\ pc = "idle"
    /\ runs = 0
    /\ args = NoArgs
    /\ credential = NoKey
    /\ seen = NoSeen
    /\ outputs = NoOutputs
    /\ calls = <<>>
    /\ prompts = 0
    /\ answers = <<>>
    /\ polls = 0
    /\ log = <<>>
    /\ outcome = NoOutcome
    /\ pre = NoSnapshot

\* the run variables of an invocation, as one record
RunView == [pc |-> pc, args |-> args, credential |-> credential, seen |-> seen,
            outputs |-> outputs, calls |-> calls, prompts |-> prompts,
            answers |-> answers, polls |-> polls, log |-> log,
            outcome |-> outcome, pre |-> pre]

IdleRun == [pc |-> "idle", args |-> NoArgs, credential |-> NoKey, seen |-> NoSeen,
            outputs |-> NoOutputs, calls |-> <<>>, prompts |-> 0, answers |-> <<>>,
            polls |-> 0, log |-> <<>>, outcome |-> NoOutcome, pre |-> NoSnapshot]

\* useState(null), useState({}), useState(true) of a Dashboard not yet mounted
NoAttributes == [email |-> "", given_name |-> "", email_verified |-> ""]
NoDashboard == [mounted |-> FALSE, loading |-> TRUE, user |-> "none",
                attributes |-> NoAttributes, check |-> "none", current |-> "none",
                results |-> <<>>, signingOut |-> FALSE]

\* the useState initial values of the auth forms, as one record of fields
NoData == [firstName |-> <<>>, lastName |-> <<>>, email |-> <<>>,
           password |-> <<>>, confirmPassword |-> <<>>, code |-> <<>>]

\* A form component just mounted: email is location.state?.email || '', the
\* rest are the initial values of useState.
FreshForm(email) == [email |-> email, data |-> NoData, error |-> "", success |-> "",
                     loading |-> FALSE, resending |-> FALSE]

\* The browser opens the application: "/" is redirected to /login.
InitFrontend ==
    /\ route = "/login"
    /\ session = "none"
    /\ dash = NoDashboard
    /\ orphans = 0
    /\ form = FreshForm(<<>>)
    /\ inflight = <<>>
    /\ timers = {}
    /\ signedUp = {}

Init == InitRemote /\ InitRun /\ prev = NoRun /\ other = IdleRun /\ InitFrontend

\* the same, with the history of the previous run kept
InitHistory ==
    InitRemote /\ InitRun /\ prev = NoRunYet /\ other = IdleRun /\ InitFrontend

\* ------------------------------------------------------------ remote calls
MutatingCalls == {"createInstance", "writeSecret", "create-stack", "create-change-set",
                  "execute-change-set", "delete-stack", "s3 sync", "s3 cp",
                  "create-invalidation"}

Issued(name) == \E i \in 1..Len(calls) : calls[i] = name

CountOf(name) == Cardinality({i \in 1..Len(calls) : calls[i] = name})

\* the path of the secret in the parameter store
SecretPath == "/kiro/kiro-user-management-api/api-key"

\* A line of the operator-visible output: its label, its fixed text and the
\* values it prints.
Line(kind, text, values) == [kind |-> kind, text |-> text, values |-> values]

\* the line prints the value v
Shows(line, v) == \E j \in 1..Len(line.values) : line.values[j] = v

\* ---------------------------------------------------------- run skeleton
Snapshot == [status |-> stackStatus, secret |-> secret, instances |-> instances,
             stackGen |-> stackGen, deployed |-> deployed]

\* a failing step that ends the run with exit code 0
FailsMutantExitZero(err, code) ==
    /\ outcome' = [kind |-> "FAILURE", exit |-> 0, error |-> err]
    /\ pc' = "done"

\* A failing step ends the run: the shell exits with the code at once.
Fails(err, code) ==
    /\ outcome' = [kind |-> "FAILURE", exit |-> code, error |-> err]
    /\ pc' = "done"

\* The operator starts a run: ./deploy-cloudformation.sh [-f] [instance] [key]
StartRun(f, k, t) ==
    /\ pc = "idle"
    /\ runs < MaxRuns
    /\ runs' = runs + 1
    /\ args' = [force |-> f, key |-> k, template |-> t]
    /\ pc' = "validate_args"
    /\ credential' = NoKey
    /\ seen' = NoSeen
    /\ outputs' = NoOutputs
    /\ calls' = <<>>
    /\ prompts' = 0
    /\ answers' = <<>>
    /\ polls' = 0
    /\ log' = <<>>
    /\ outcome' = NoOutcome
    /\ pre' = Snapshot
    /\ UNCHANGED <<localVars, backstage>>
    /\ UNCHANGED <<remoteVars, prev>>

\* The run is over; the orchestrator keeps nothing of it.
EndRun ==
    /\ pc = "done"
    /\ pc' = "idle"
    /\ prev' = IF prev.track
               THEN [track |-> TRUE, ran |-> TRUE, quiet |-> TRUE, args |-> args,
                     answers |-> answers, outcome |-> outcome, outputs |-> outputs,
                     credential |-> credential]
               ELSE prev
    /\ args' = NoArgs
    /\ credential' = NoKey
    /\ seen' = NoSeen
    /\ outputs' = NoOutputs
    /\ calls' = <<>>
    /\ prompts' = 0
    /\ answers' = <<>>
    /\ polls' = 0
    /\ log' = <<>>
    /\ outcome' = NoOutcome
    /\ pre' = NoSnapshot
    /\ UNCHANGED <<localVars, backstage>>
    /\ UNCHANGED <<remoteVars, runs>>

\* ------------------------------------------------------ argument validation
\* The minimum-length policy of an operator-supplied credential.
ValidKeyMutantNoCheck(supplied) == TRUE

ValidKey(supplied) == supplied = NoKey \/ Len(supplied) >= MinKeyLength

ValidateArgs ==
    /\ pc = "validate_args"
    /\ IF ValidKey(args.key)
       THEN /\ pc' = "probe_identity"
            /\ UNCHANGED outcome
       ELSE Fails("ValidationError", 1)
    /\ UNCHANGED <<localVars, backstage>>
    /\ UNCHANGED <<remoteVars, runs, args, credential, seen, outputs, calls,
                   prompts, answers, polls, log, pre, prev>>

\* --------------------------------------------------------- identity prober
\* Lists the instances of the region; with none, force mode creates one
\* without asking and the interactive mode asks first.
ProbeIdentity ==
    /\ pc = "probe_identity"
    /\ IF instances > 0
       THEN /\ calls' = Append(calls, "listInstances")
            /\ pc' = "credential"
            /\ UNCHANGED instances
       ELSE IF args.force
       THEN /\ calls' = calls \o <<"listInstances", "createInstance">>
            /\ instances' = 1
            /\ pc' = "credential"
       ELSE /\ calls' = Append(calls, "listInstances")
            /\ pc' = "prompt_instance"
            /\ UNCHANGED instances
    /\ UNCHANGED <<localVars, backstage>>
    /\ UNCHANGED <<stackStatus, stackGen, deployed, pending, secret, bucket,
                   invalidations, runs, args, credential, seen, outputs, prompts,
                   answers, polls, log, outcome, pre, prev>>

AnswerCreateInstance(ans) ==
    /\ pc = "prompt_instance"
    /\ prompts' = prompts + 1
    /\ answers' = Append(answers, <<"instance", ans>>)
    /\ IF ans = "yes"
       THEN /\ calls' = Append(calls, "createInstance")
            /\ instances' = 1
            /\ pc' = "credential"
            /\ UNCHANGED outcome
       ELSE /\ Fails("ConfigurationError", 1)
            /\ UNCHANGED <<calls, instances>>
    /\ UNCHANGED <<localVars, backstage>>
    /\ UNCHANGED <<stackStatus, stackGen, deployed, pending, secret, bucket,
                   invalidations, runs, args, credential, seen, outputs, polls,
                   log, pre, prev>>

\* -------------------------------------------------------- credential manager
\* The random source, filtered to the alphanumeric characters and cut to
\* GeneratedKeyLength characters.
GenerateKeyMutantShort(seed) ==
    [i \in 1..(GeneratedKeyLength \div 2) |-> AlnumSeq[((seed + i) % Len(AlnumSeq)) + 1]]

GenerateKey(seed) ==
    [i \in 1..GeneratedKeyLength |-> AlnumSeq[((seed + i) % Len(AlnumSeq)) + 1]]

\* ensureCredential: the stored credential if there is one, else the operator's,
\* else a generated one.
ChooseCredentialMutantSuppliedFirst(stored, supplied, generated) ==
    IF supplied # NoKey THEN supplied
    ELSE IF stored # NoKey THEN stored
    ELSE generated

ChooseCredential(stored, supplied, generated) ==
    IF stored # NoKey THEN stored
    ELSE IF supplied # NoKey THEN supplied
    ELSE generated

\* the secret is written once: only when nothing is stored at the path
MustPersist(stored, chosen) == stored = NoKey

\* a credential step that generates and writes on every run
EnsureCredentialMutantRegenerate(seed) ==
    /\ pc = "credential"
    /\ credential' = IF args.key # NoKey THEN args.key ELSE GenerateKey(seed)
    /\ secret' = credential'
    /\ calls' = calls \o <<"readSecret", "writeSecret">>
    /\ pc' = "validate_template"
    /\ UNCHANGED <<localVars, backstage>>
    /\ UNCHANGED <<stackStatus, stackGen, deployed, pending, instances, bucket,
                   invalidations, runs, args, seen, outputs, prompts, answers,
                   polls, log, outcome, pre, prev>>

EnsureCredential(seed) ==
    /\ pc = "credential"
    /\ LET chosen == ChooseCredential(secret, args.key, GenerateKey(seed))
       IN /\ credential' = chosen
          /\ IF MustPersist(secret, chosen)
             THEN /\ secret' = chosen
                  /\ calls' = calls \o <<"readSecret", "writeSecret">>
             ELSE /\ calls' = Append(calls, "readSecret")
                  /\ UNCHANGED secret
    /\ pc' = "validate_template"
    /\ UNCHANGED <<localVars, backstage>>
    /\ UNCHANGED <<stackStatus, stackGen, deployed, pending, instances, bucket,
                   invalidations, runs, args, seen, outputs, prompts, answers,
                   polls, log, outcome, pre, prev>>

\* Explicit rotation by the operator, outside any run.
RotatedKey == Repeat("r", MinKeyLength + 1)

Rotate ==
    /\ pc = "idle"
    /\ secret \notin {NoKey, RotatedKey}
    /\ secret' = RotatedKey
    /\ prev' = IF prev.ran THEN [prev EXCEPT !.quiet = FALSE] ELSE prev
    /\ UNCHANGED <<localVars, backstage>>
    /\ UNCHANGED <<stackStatus, stackGen, deployed, pending, instances, bucket,
                   invalidations, pc, runs, args, credential, seen, outputs, calls,
                   prompts, answers, polls, log, outcome, pre>>


\* --------------------------------------------------- provisioning service
\* statuses in which the service accepts a change set
UpdatableStates == {"CREATE_COMPLETE", "UPDATE_COMPLETE", "UPDATE_ROLLBACK_COMPLETE"}

\* statuses in which the stack has its resources, hence its outputs
StatesWithOutputs == {"CREATE_COMPLETE", "UPDATE_COMPLETE", "UPDATE_IN_PROGRESS",
                      "UPDATE_ROLLBACK_COMPLETE", "UPDATE_ROLLBACK_FAILED"}

\* Template versions above MaxTemplate are edits of the template that leave out
\* the declaration of one output.
Omitted == <<"UserPoolId", "WebsiteBucketName", "CloudFrontDistributionId">>

DeclaredOutputs(t) ==
    IF t > MaxTemplate THEN RequiredOutputKeys \ {Omitted[t - MaxTemplate]}
    ELSE RequiredOutputKeys

StackOutputs ==
    IF stackStatus \in StatesWithOutputs
    THEN [k \in DOMAIN OutputsOf(stackGen, deployed.key)
                \ (RequiredOutputKeys \ DeclaredOutputs(deployed.template)) |->
            OutputsOf(stackGen, deployed.key)[k]]
    ELSE NoOutputs

\* --output text of a --query that selects one output value
QueryOutput(outs, k) == IF k \in DOMAIN outs THEN outs[k] ELSE <<>>

\* The provisioning service finishes the operation in progress, well or badly.
ServiceProgress(ok) ==
    /\ stackStatus \in InProgressStates
    /\ IF stackStatus = "CREATE_IN_PROGRESS"
       THEN /\ stackStatus' = IF ok THEN "CREATE_COMPLETE" ELSE "ROLLBACK_COMPLETE"
            /\ deployed' = IF ok THEN pending ELSE NoDeployment
       ELSE IF stackStatus = "UPDATE_IN_PROGRESS"
       THEN /\ stackStatus' = IF ok THEN "UPDATE_COMPLETE" ELSE "UPDATE_ROLLBACK_COMPLETE"
            /\ deployed' = IF ok THEN pending ELSE deployed
       ELSE /\ stackStatus' = IF ok /\ bucket = EmptyBucket
                            THEN "NOT_FOUND" ELSE "DELETE_FAILED"
            /\ deployed' = IF ok /\ bucket = EmptyBucket THEN NoDeployment ELSE deployed
    /\ pending' = NoDeployment
    /\ prev' = IF pc = "idle" /\ prev.ran THEN [prev EXCEPT !.quiet = FALSE] ELSE prev
    /\ UNCHANGED <<localVars, backstage>>
    /\ UNCHANGED <<stackGen, secret, instances, bucket, invalidations, pc, runs,
                   args, credential, seen, outputs, calls, prompts, answers, polls,
                   log, outcome, pre>>

\* A creation that fails is rolled back: CloudFormation deletes the resources it
\* had created, and reports ROLLBACK_IN_PROGRESS while it does so.
RollbackStarts ==
    /\ stackStatus = "CREATE_IN_PROGRESS"
    /\ stackStatus' = "ROLLBACK_IN_PROGRESS"
    /\ prev' = IF pc = "idle" /\ prev.ran THEN [prev EXCEPT !.quiet = FALSE] ELSE prev
    /\ UNCHANGED <<localVars, backstage>>
    /\ UNCHANGED <<stackGen, deployed, pending, secret, instances, bucket,
                   invalidations, pc, runs, args, credential, seen, outputs, calls,
                   prompts, answers, polls, log, outcome, pre>>

RollbackEnds ==
    /\ stackStatus = "ROLLBACK_IN_PROGRESS"
    /\ stackStatus' = "ROLLBACK_COMPLETE"
    /\ deployed' = NoDeployment
    /\ pending' = NoDeployment
    /\ prev' = IF pc = "idle" /\ prev.ran THEN [prev EXCEPT !.quiet = FALSE] ELSE prev
    /\ UNCHANGED <<localVars, backstage>>
    /\ UNCHANGED <<stackGen, secret, instances, bucket, invalidations, pc, runs,
                   args, credential, seen, outputs, calls, prompts, answers, polls,
                   log, outcome, pre>>

\* The CDN finishes the invalidation in progress.
InvalidationProgress ==
    /\ invalidations.completed < invalidations.issued
    /\ invalidations' = [invalidations EXCEPT !.completed = invalidations.issued]
    /\ prev' = IF pc = "idle" /\ prev.ran THEN [prev EXCEPT !.quiet = FALSE] ELSE prev
    /\ UNCHANGED <<localVars, backstage>>
    /\ UNCHANGED <<stackStatus, stackGen, deployed, pending, secret, instances,
                   bucket, pc, runs, args, credential, seen, outputs, calls, prompts,
                   answers, polls, log, outcome, pre>>

\* ------------------------------------------------ stack lifecycle controller
\* Version 0 of the template file is one that the service does not accept.
TemplateIsValid(t) == t >= 1

\* a validation whose result is not looked at
ValidateTemplateMutantIgnoresResult ==
    /\ pc = "validate_template"
    /\ calls' = Append(calls, "validate-template")
    /\ log' = Append(log, Line("progress", "Template is valid", <<>>))
    /\ pc' = "describe"
    /\ UNCHANGED <<localVars, backstage>>
    /\ UNCHANGED <<remoteVars, runs, args, credential, seen, outputs, prompts,
                   answers, polls, outcome, pre, prev>>

\* Step 1: aws cloudformation validate-template
ValidateTemplate ==
    /\ pc = "validate_template"
    /\ calls' = Append(calls, "validate-template")
    /\ IF TemplateIsValid(args.template)
       THEN /\ log' = Append(log, Line("progress", "Template is valid", <<>>))
            /\ pc' = "describe"
            /\ UNCHANGED outcome
       ELSE /\ Fails("TemplateInvalid", 254)
            /\ UNCHANGED log
    /\ UNCHANGED <<localVars, backstage>>
    /\ UNCHANGED <<remoteVars, runs, args, credential, seen, outputs, prompts,
                   answers, polls, pre, prev>>

\* The step that follows the describe call in force mode, the script's
\* "if aws cloudformation describe-stacks ...; then ... else ... fi": an existing
\* stack is updated through a change set, a missing one is created.
ForceDecisionMutantRecreate(raw) ==
    IF Classify(raw) = "FAILED" THEN "delete_stack"
    ELSE IF DescribeSucceeds(raw) THEN "create_change_set" ELSE "create_stack"

ForceDecision(raw) ==
    IF DescribeSucceeds(raw) THEN "create_change_set" ELSE "create_stack"

\* The step that follows the describe call in the interactive mode: the
\* StackState decides, and the operator is asked before an update or a deletion.
InteractiveDecision(raw) ==
    IF Classify(raw) = "ABSENT" THEN "create_stack"
    ELSE IF Classify(raw) = "SUCCEEDED" THEN "prompt_update"
    ELSE IF Classify(raw) = "FAILED" THEN "prompt_recreate"
    ELSE IF Classify(raw) = "IN_PROGRESS" THEN "poll_stack"
    ELSE "fatal"

\* -f skips all prompts
StackDecision(force, raw) ==
    IF force THEN ForceDecision(raw) ELSE InteractiveDecision(raw)

\* Step 2: check if stack exists; raw is what the describe call answers
Describe(raw) ==
    /\ pc = "describe"
    /\ calls' = Append(calls, "describe-stacks")
    /\ seen' = [status |-> raw,
                outputs |-> IF raw \in DescribeErrors THEN NoOutputs ELSE StackOutputs]
    /\ polls' = 0
    /\ IF StackDecision(args.force, raw) = "fatal"
       THEN Fails("ConfigurationError", 1)
       ELSE /\ pc' = StackDecision(args.force, raw)
            /\ UNCHANGED outcome
    /\ UNCHANGED <<localVars, backstage>>
    /\ UNCHANGED <<remoteVars, runs, args, credential, outputs, prompts, answers,
                   log, pre, prev>>

\* the service answers with the status of the stack
DescribeStack == Describe(stackStatus)

\* the service refuses the describe call
DescribeRefused == \E err \in DescribeErrors : Describe(err)

\* The interactive mode polls a stack found IN_PROGRESS until it is terminal.
PollStack ==
    /\ pc = "poll_stack"
    /\ calls' = Append(calls, "describe-stacks")
    /\ IF Classify(stackStatus) # "IN_PROGRESS"
       THEN /\ seen' = [status |-> stackStatus, outputs |-> StackOutputs]
            /\ IF StackDecision(args.force, stackStatus) = "fatal"
               THEN /\ Fails("ConfigurationError", 1)
                    /\ UNCHANGED polls
               ELSE /\ pc' = StackDecision(args.force, stackStatus)
                    /\ polls' = 0
                    /\ UNCHANGED outcome
       ELSE IF polls < MaxPoll
       THEN /\ polls' = polls + 1
            /\ UNCHANGED <<seen, pc, outcome>>
       ELSE /\ Fails("Timeout", 1)
            /\ UNCHANGED <<seen, polls>>
    /\ UNCHANGED <<localVars, backstage>>
    /\ UNCHANGED <<remoteVars, runs, args, credential, outputs, prompts, answers,
                   log, pre, prev>>

\* the stack information as shown to the operator, in the order of the echo lines
OutputOrder == <<"UserPoolId", "UserPoolClientId", "WebsiteBucketName",
                 "CloudFrontDistributionId", "WebsiteURL">>

OutputLines(outs) ==
    <<Line("outputs", "", [i \in 1..Len(OutputOrder) |-> QueryOutput(outs, OutputOrder[i])])>>

\* declining is ignored: the update goes ahead
AnswerUpdateMutantIgnoresNo(ans) ==
    /\ pc = "prompt_update"
    /\ prompts' = prompts + 1
    /\ answers' = Append(answers, <<"update", ans>>)
    /\ pc' = "create_change_set"
    /\ UNCHANGED <<outputs, log, outcome>>
    /\ UNCHANGED <<localVars, backstage>>
    /\ UNCHANGED <<remoteVars, runs, args, credential, seen, calls, polls, pre, prev>>

\* "Update the existing stack?"  Declining shows the current stack information.
AnswerUpdate(ans) ==
    /\ pc = "prompt_update"
    /\ prompts' = prompts + 1
    /\ answers' = Append(answers, <<"update", ans>>)
    /\ IF ans = "yes"
       THEN /\ pc' = "create_change_set"
            /\ UNCHANGED <<outputs, log, outcome>>
       ELSE /\ outputs' = seen.outputs
            /\ log' = log \o OutputLines(seen.outputs)
            /\ outcome' = [kind |-> "SUCCESS", exit |-> 0, error |-> "none"]
            /\ pc' = "done"
    /\ UNCHANGED <<localVars, backstage>>
    /\ UNCHANGED <<remoteVars, runs, args, credential, seen, calls, polls, pre, prev>>

\* declining is ignored: the failed stack is deleted
AnswerRecreateMutantIgnoresNo(ans) ==
    /\ pc = "prompt_recreate"
    /\ prompts' = prompts + 1
    /\ answers' = Append(answers, <<"recreate", ans>>)
    /\ pc' = "delete_stack"
    /\ UNCHANGED <<log, outcome>>
    /\ UNCHANGED <<localVars, backstage>>
    /\ UNCHANGED <<remoteVars, runs, args, credential, seen, outputs, calls, polls,
                   pre, prev>>

\* "Delete the failed stack and recreate it?"
AnswerRecreate(ans) ==
    /\ pc = "prompt_recreate"
    /\ prompts' = prompts + 1
    /\ answers' = Append(answers, <<"recreate", ans>>)
    /\ IF ans = "yes"
       THEN /\ pc' = "delete_stack"
            /\ UNCHANGED <<log, outcome>>
       ELSE /\ log' = Append(log, Line("status", seen.status, <<>>))
            /\ Fails("TerminalFailureState", 1)
    /\ UNCHANGED <<localVars, backstage>>
    /\ UNCHANGED <<remoteVars, runs, args, credential, seen, outputs, calls, polls,
                   pre, prev>>

DeleteStack ==
    /\ pc = "delete_stack"
    /\ calls' = Append(calls, "delete-stack")
    /\ stackStatus' = "DELETE_IN_PROGRESS"
    /\ pending' = NoDeployment
    /\ polls' = 0
    /\ pc' = "wait_delete"
    /\ UNCHANGED <<localVars, backstage>>
    /\ UNCHANGED <<stackGen, deployed, secret, instances, bucket, invalidations,
                   runs, args, credential, seen, outputs, prompts, answers, log,
                   outcome, pre, prev>>

\* a wait that returns at once, whatever the status
WaitResultMutantNoWait(raw, wanted, inProgress) == "ok"

\* A wait polls until the status it waits for, a failed status or the timeout.
WaitResult(raw, wanted, inProgress) ==
    IF raw = wanted THEN "ok"
    ELSE IF raw = inProgress THEN (IF polls < MaxPoll THEN "again" ELSE "timeout")
    ELSE "failed"

\* the waiter polls for as long as the operation is in progress
WaitMutantNoTimeout(name, wanted, inProgress, next) ==
    /\ calls' = IF polls = 0 THEN Append(calls, name) ELSE calls
    /\ IF stackStatus = wanted
       THEN /\ pc' = next
            /\ polls' = 0
            /\ UNCHANGED outcome
       ELSE IF stackStatus = inProgress
       THEN /\ polls' = IF polls < MaxPoll THEN polls + 1 ELSE polls
            /\ UNCHANGED <<pc, outcome>>
       ELSE /\ Fails("TerminalFailureState", 255)
            /\ UNCHANGED polls
    /\ UNCHANGED <<localVars, backstage>>
    /\ UNCHANGED <<stackStatus, stackGen, deployed, pending, secret, instances,
                   bucket, invalidations, runs, args, credential, seen, outputs,
                   prompts, answers, log, pre, prev>>

\* aws cloudformation wait <condition>: polls the stack until the condition
\* holds, a terminal failure is seen or the attempts run out (exit 255)
Wait(name, wanted, inProgress, next) ==
    /\ calls' = IF polls = 0 THEN Append(calls, name) ELSE calls
    /\ IF WaitResult(stackStatus, wanted, inProgress) = "ok"
       THEN /\ pc' = next
            /\ polls' = 0
            /\ UNCHANGED outcome
       ELSE IF WaitResult(stackStatus, wanted, inProgress) = "again"
       THEN /\ polls' = polls + 1
            /\ UNCHANGED <<pc, outcome>>
       ELSE IF WaitResult(stackStatus, wanted, inProgress) = "timeout"
       THEN /\ Fails("Timeout", 255)
            /\ UNCHANGED polls
       ELSE /\ Fails("TerminalFailureState", 255)
            /\ UNCHANGED polls
    /\ UNCHANGED <<localVars, backstage>>
    /\ UNCHANGED <<remoteVars, runs, args, credential, seen, outputs, prompts,
                   answers, log, pre, prev>>

\* the run goes on to the create call without waiting for the deletion to end
WaitDeleteMutantNoWait ==
    /\ pc = "wait_delete"
    /\ calls' = Append(calls, "wait stack-delete-complete")
    /\ pc' = "create_stack"
    /\ polls' = 0
    /\ UNCHANGED outcome
    /\ UNCHANGED <<localVars, backstage>>
    /\ UNCHANGED <<remoteVars, runs, args, credential, seen, outputs, prompts,
                   answers, log, pre, prev>>

WaitDelete ==
    /\ pc = "wait_delete"
    /\ Wait("wait stack-delete-complete", "NOT_FOUND", "DELETE_IN_PROGRESS", "create_stack")

\* a rejected create call is swallowed and the run goes on to the wait
CreateStackMutantSwallows ==
    /\ pc = "create_stack"
    /\ calls' = Append(calls, "create-stack")
    /\ polls' = 0
    /\ pc' = "wait_create"
    /\ IF stackStatus = "NOT_FOUND"
       THEN /\ stackStatus' = "CREATE_IN_PROGRESS"
            /\ stackGen' = stackGen + 1
            /\ pending' = [template |-> args.template, key |-> credential]
       ELSE UNCHANGED <<stackStatus, stackGen, pending>>
    /\ UNCHANGED <<localVars, backstage>>
    /\ UNCHANGED <<deployed, secret, instances, bucket, invalidations, runs, args,
                   credential, seen, outputs, prompts, answers, log, outcome, pre, prev>>

\* Step 2, else branch: aws cloudformation create-stack
CreateStack ==
    /\ pc = "create_stack"
    /\ calls' = Append(calls, "create-stack")
    /\ polls' = 0
    /\ IF stackStatus = "NOT_FOUND"
       THEN /\ stackStatus' = "CREATE_IN_PROGRESS"
            /\ stackGen' = stackGen + 1
            /\ pending' = [template |-> args.template, key |-> credential]
            /\ pc' = "wait_create"
            /\ UNCHANGED outcome
       ELSE /\ Fails("AlreadyExists", 254)
            /\ UNCHANGED <<stackStatus, stackGen, pending>>
    /\ UNCHANGED <<localVars, backstage>>
    /\ UNCHANGED <<deployed, secret, instances, bucket, invalidations, runs, args,
                   credential, seen, outputs, prompts, answers, log, pre, prev>>

WaitCreate ==
    /\ pc = "wait_create"
    /\ Wait("wait stack-create-complete", "CREATE_COMPLETE", "CREATE_IN_PROGRESS",
            "retrieve_outputs")

\* Step 2, then branch: aws cloudformation create-change-set
CreateChangeSet ==
    /\ pc = "create_change_set"
    /\ calls' = Append(calls, "create-change-set")
    /\ polls' = 0
    /\ IF stackStatus \in UpdatableStates
       THEN /\ pc' = "wait_change_set"
            /\ UNCHANGED outcome
       ELSE Fails("NotUpdatable", 254)
    /\ UNCHANGED <<localVars, backstage>>
    /\ UNCHANGED <<remoteVars, runs, args, credential, seen, outputs, prompts,
                   answers, log, pre, prev>>

\* The status the change set reaches: FAILED when the submitted template and
\* parameters contain no changes.
ChangeSetStatus(local, dep) == IF local = dep THEN "FAILED" ELSE "CREATE_COMPLETE"

\* aws cloudformation wait change-set-create-complete
WaitChangeSet ==
    /\ pc = "wait_change_set"
    /\ calls' = Append(calls, "wait change-set-create-complete")
    /\ IF ChangeSetStatus([template |-> args.template, key |-> credential], deployed)
            = "CREATE_COMPLETE"
       THEN /\ pc' = "execute_change_set"
            /\ UNCHANGED outcome
       ELSE Fails("NoChanges", 255)
    /\ UNCHANGED <<localVars, backstage>>
    /\ UNCHANGED <<remoteVars, runs, args, credential, seen, outputs, prompts,
                   answers, polls, log, pre, prev>>

\* aws cloudformation execute-change-set
ExecuteChangeSet ==
    /\ pc = "execute_change_set"
    /\ calls' = Append(calls, "execute-change-set")
    /\ stackStatus' = "UPDATE_IN_PROGRESS"
    /\ pending' = [template |-> args.template, key |-> credential]
    /\ polls' = 0
    /\ pc' = "wait_update"
    /\ UNCHANGED <<localVars, backstage>>
    /\ UNCHANGED <<stackGen, deployed, secret, instances, bucket, invalidations,
                   runs, args, credential, seen, outputs, prompts, answers, log,
                   outcome, pre, prev>>

WaitUpdate ==
    /\ pc = "wait_update"
    /\ Wait("wait stack-update-complete", "UPDATE_COMPLETE", "UPDATE_IN_PROGRESS",
            "retrieve_outputs")


\* ------------------------------------------------ outputs, build, publish
\* Step 3: one describe-stacks query per output
RetrieveOutputs ==
    /\ pc = "retrieve_outputs"
    /\ calls' = calls \o [i \in 1..Cardinality(RequiredOutputKeys) |-> "describe-stacks"]
    /\ outputs' = [k \in RequiredOutputKeys |-> QueryOutput(StackOutputs, k)]
    /\ log' = log \o <<Line("progress", "Stack deployed successfully", <<>>)>>
                  \o OutputLines(outputs')
    /\ pc' = "configure"
    /\ UNCHANGED <<localVars, backstage>>
    /\ UNCHANGED <<remoteVars, runs, args, credential, seen, prompts, answers,
                   polls, outcome, pre, prev>>

\* the configuration is written from what describe answered before the deployment
ConfigureFrontendMutantStale ==
    /\ pc = "configure"
    /\ envFile' = [pool |-> QueryOutput(seen.outputs, "UserPoolId"),
                   client |-> QueryOutput(seen.outputs, "UserPoolClientId")]
    /\ log' = Append(log, Line("progress", "Frontend environment configured", <<>>))
    /\ pc' = "build"
    /\ UNCHANGED <<buildDir, backstage>>
    /\ UNCHANGED <<remoteVars, runs, args, credential, seen, outputs, calls, prompts,
                   answers, polls, outcome, pre, prev>>

\* Step 4: cat > frontend/.env.production
ConfigureFrontend ==
    /\ pc = "configure"
    /\ envFile' = [pool |-> outputs["UserPoolId"], client |-> outputs["UserPoolClientId"]]
    /\ log' = Append(log, Line("progress", "Frontend environment configured", <<>>))
    /\ pc' = "build"
    /\ UNCHANGED <<buildDir, backstage>>
    /\ UNCHANGED <<remoteVars, runs, args, credential, seen, outputs, calls, prompts,
                   answers, polls, outcome, pre, prev>>

\* Steps 5 and 6: npm install, npm run build
BuildFrontend ==
    /\ pc = "build"
    /\ buildDir' = [env |-> envFile, id |-> runs]
    /\ log' = Append(log, Line("progress", "Frontend built successfully", <<>>))
    /\ pc' = "sync"
    /\ UNCHANGED <<envFile, backstage>>
    /\ UNCHANGED <<remoteVars, runs, args, credential, seen, outputs, calls, prompts,
                   answers, polls, outcome, pre, prev>>

\* the files that aws s3 sync leaves out
Excluded == {"index.html", "asset-manifest.json", "service-worker.js"}

\* Step 7: aws s3 sync --delete --cache-control "public, max-age=31536000"
SyncAssets ==
    /\ pc = "sync"
    /\ calls' = Append(calls, "s3 sync")
    /\ IF outputs["WebsiteBucketName"] # <<>>
       THEN /\ bucket' = [f \in Files |->
                            IF f \in Excluded THEN bucket[f]
                            ELSE [build |-> buildDir.id,
                                  cache |-> "public, max-age=31536000"]]
            /\ pc' = "copy_index"
            /\ UNCHANGED outcome
       ELSE /\ Fails("InvalidBucketName", 255)
            /\ UNCHANGED bucket
    /\ UNCHANGED <<localVars, backstage>>
    /\ UNCHANGED <<stackStatus, stackGen, deployed, pending, secret, instances,
                   invalidations, runs, args, credential, seen, outputs, prompts,
                   answers, polls, log, pre, prev>>

\* Step 7: aws s3 cp index.html --cache-control "no-cache, no-store, must-revalidate"
CopyIndex ==
    /\ pc = "copy_index"
    /\ calls' = Append(calls, "s3 cp")
    /\ bucket' = [bucket EXCEPT !["index.html"] =
                    [build |-> buildDir.id, cache |-> "no-cache, no-store, must-revalidate"]]
    /\ log' = Append(log, Line("progress", "Frontend deployed to S3", <<>>))
    /\ pc' = "invalidate"
    /\ UNCHANGED <<localVars, backstage>>
    /\ UNCHANGED <<stackStatus, stackGen, deployed, pending, secret, instances,
                   invalidations, runs, args, credential, seen, outputs, prompts,
                   answers, polls, outcome, pre, prev>>

\* Step 8: aws cloudfront create-invalidation --paths "/*"
CreateInvalidation ==
    /\ pc = "invalidate"
    /\ calls' = Append(calls, "create-invalidation")
    /\ polls' = 0
    /\ IF outputs["CloudFrontDistributionId"] # <<>>
       THEN /\ invalidations' = [issued |-> invalidations.completed + 1,
                                 completed |-> invalidations.completed,
                                 dist |-> outputs["CloudFrontDistributionId"],
                                 paths |-> "/*"]
            /\ pc' = "wait_invalidation"
            /\ UNCHANGED outcome
       ELSE /\ Fails("MissingDistributionId", 252)
            /\ UNCHANGED invalidations
    /\ UNCHANGED <<localVars, backstage>>
    /\ UNCHANGED <<stackStatus, stackGen, deployed, pending, secret, instances, bucket,
                   runs, args, credential, seen, outputs, prompts, answers, log,
                   pre, prev>>

\* the script goes on without waiting for the invalidation
WaitInvalidationMutantNoWait ==
    /\ pc = "wait_invalidation"
    /\ calls' = Append(calls, "wait invalidation-completed")
    /\ log' = Append(log, Line("progress", "CloudFront cache invalidated", <<>>))
    /\ pc' = "report"
    /\ UNCHANGED <<localVars, backstage>>
    /\ UNCHANGED <<remoteVars, runs, args, credential, seen, outputs, prompts,
                   answers, polls, outcome, pre, prev>>

\* Step 8: aws cloudfront wait invalidation-completed
WaitInvalidation ==
    /\ pc = "wait_invalidation"
    /\ calls' = IF polls = 0 THEN Append(calls, "wait invalidation-completed") ELSE calls
    /\ IF invalidations.completed = invalidations.issued
       THEN /\ log' = Append(log, Line("progress", "CloudFront cache invalidated", <<>>))
            /\ pc' = "report"
            /\ polls' = 0
            /\ UNCHANGED outcome
       ELSE IF polls < MaxPoll
       THEN /\ polls' = polls + 1
            /\ UNCHANGED <<pc, outcome, log>>
       ELSE /\ Fails("Timeout", 255)
            /\ UNCHANGED <<polls, log>>
    /\ UNCHANGED <<localVars, backstage>>
    /\ UNCHANGED <<remoteVars, runs, args, credential, seen, outputs, prompts,
                   answers, pre, prev>>

\* --------------------------------------------------------- outcome reporter
\* === API CREDENTIALS ===: the key, its location and the command to read it
CredentialLines(cred) ==
    <<Line("API Key", "", <<cred>>),
      Line("Parameter Store Location", SecretPath, <<>>),
      Line("To retrieve your API key later", SecretPath, <<>>)>>

Report ==
    /\ pc = "report"
    /\ log' = log \o <<Line("progress", "Deployment Complete!", <<>>),
                       Line("url", "", <<outputs["WebsiteURL"]>>)>>
                  \o CredentialLines(credential)
    /\ outcome' = [kind |-> "SUCCESS", exit |-> 0, error |-> "none"]
    /\ pc' = "done"
    /\ UNCHANGED <<localVars, backstage>>
    /\ UNCHANGED <<remoteVars, runs, args, credential, seen, outputs, calls, prompts,
                   answers, polls, pre, prev>>

\* what the operator can answer to a prompt
Answers == {"yes", "no"}

\* ------------------------------------------------------- web application
\* what a step of the web application does not touch
deployVars == <<remoteVars, localVars, runVars, other>>

\* the users of the pool that sign in from this browser
Users == {"alice", "bob"}

\* fetchUserAttributes of a signed-in user
AttributesOf(u) == [email |-> u, given_name |-> u, email_verified |-> "true"]

\* the routes of App.tsx ("/" is redirected to /login)
Routes == {"/login", "/signup", "/verify-email", "/forgot-password",
           "/reset-password", "/dashboard"}

\* <Route path="/dashboard" element={<Dashboard />} />: the component is mounted
\* with its initial state and its effect calls checkUser, which awaits
\* getCurrentUser.
MountedDashboard == [NoDashboard EXCEPT !.mounted = TRUE, !.check = "getCurrentUser"]

\* The requests of a form that is unmounted go on without it: their state
\* updates are dropped, their navigations are not.
Orphaned(reqs) == [i \in 1..Len(reqs) |-> [reqs[i] EXCEPT !.live = FALSE]]

\* the unmounted forms leave no more requests behind than the bound allows
FewOrphaned(reqs) == Len(reqs) <= MaxInflight

\* The user types a location or follows a link.  A Dashboard that is left is
\* unmounted; its checkUser, if pending, goes on without it.
UserNavigates(to) ==
    /\ to # route
    /\ ~dash.signingOut
    /\ dash.check # "none" => orphans < MaxOrphans
    /\ FewOrphaned(inflight)
    /\ route' = to
    /\ dash' = IF to = "/dashboard" THEN MountedDashboard ELSE NoDashboard
    /\ orphans' = IF dash.check # "none" THEN orphans + 1 ELSE orphans
    /\ form' = FreshForm(<<>>)
    /\ inflight' = Orphaned(inflight)
    /\ UNCHANGED <<session, signedUp, timers, deployVars>>

\* A sign-in completes (through the login form, here or in another tab).
SessionStarts(u) ==
    /\ session = "none"
    /\ session' = u
    /\ UNCHANGED <<route, dash, orphans, formVars, signedUp, deployVars>>

\* The session ends without the Dashboard: expiry, or a sign-out elsewhere.
SessionEnds ==
    /\ session # "none"
    /\ session' = "none"
    /\ UNCHANGED <<route, dash, orphans, formVars, signedUp, deployVars>>

\* the catch block keeps the page and only stops the spinner
CheckFailsMutantStays(name) ==
    /\ dash' = [dash EXCEPT !.loading = FALSE, !.check = "none",
                            !.results = Append(@, <<name, FALSE>>)]
    /\ UNCHANGED route

\* catch (err) { navigate('/login') } finally { setLoading(false) }: the router
\* leaves /dashboard and the component is unmounted; the outcome of the call is
\* kept for the record.
CheckFails(name) ==
    /\ route' = "/login"
    /\ dash' = [NoDashboard EXCEPT !.results = Append(dash.results, <<name, FALSE>>)]

\* const currentUser = await getCurrentUser(): it throws without a session
GetCurrentUserSettles(ok) ==
    /\ dash.mounted
    /\ dash.check = "getCurrentUser"
    /\ ok => session # "none"
    /\ IF ok
       THEN /\ dash' = [dash EXCEPT !.check = "fetchUserAttributes",
                                    !.current = session,
                                    !.results = Append(@, <<"getCurrentUser", TRUE>>)]
            /\ UNCHANGED route
       ELSE CheckFails("getCurrentUser")
    /\ UNCHANGED <<session, signedUp, orphans, formVars, deployVars>>

\* const userAttributes = await fetchUserAttributes(); setUser(currentUser);
\* setAttributes(userAttributes); finally setLoading(false)
FetchUserAttributesSettles(ok) ==
    /\ dash.mounted
    /\ dash.check = "fetchUserAttributes"
    /\ ok => session # "none"
    /\ IF ok
       THEN /\ dash' = [dash EXCEPT !.user = dash.current,
                                    !.attributes = AttributesOf(session),
                                    !.loading = FALSE,
                                    !.check = "none",
                                    !.results = Append(@, <<"fetchUserAttributes", TRUE>>)]
            /\ UNCHANGED route
       ELSE CheckFails("fetchUserAttributes")
    /\ UNCHANGED <<session, signedUp, orphans, formVars, deployVars>>

\* The checkUser of a Dashboard that is no longer mounted settles: its state
\* updates are dropped, its navigate('/login') is not.
OrphanSettles(ok) ==
    /\ orphans > 0
    /\ ok => session # "none"
    /\ IF ok
       THEN /\ orphans' = orphans - 1
            /\ UNCHANGED <<route, dash, form, inflight>>
       ELSE /\ route # "/login" => FewOrphaned(inflight)
            /\ route' = "/login"
            /\ dash' = NoDashboard
            /\ orphans' = IF dash.check # "none" THEN orphans ELSE orphans - 1
            /\ form' = IF route = "/login" THEN form ELSE FreshForm(<<>>)
            /\ inflight' = IF route = "/login" THEN inflight ELSE Orphaned(inflight)
    /\ UNCHANGED <<session, signedUp, timers, deployVars>>

\* onClick={handleSignOut}: the button is rendered once loading is false
SignOutClick ==
    /\ dash.mounted
    /\ ~dash.loading
    /\ ~dash.signingOut
    /\ dash' = [dash EXCEPT !.signingOut = TRUE]
    /\ UNCHANGED <<route, session, signedUp, orphans, formVars, deployVars>>

\* await signOut(); navigate('/login'): an error is logged and the page stays
SignOutSettles(ok) ==
    /\ dash.signingOut
    /\ IF ok
       THEN /\ session' = "none"
            /\ route' = "/login"
            /\ dash' = NoDashboard
       ELSE /\ dash' = [dash EXCEPT !.signingOut = FALSE]
            /\ UNCHANGED <<route, session>>
    /\ UNCHANGED <<orphans, formVars, signedUp, deployVars>>

\* What the Dashboard renders: the spinner while loading, then the page, with
\* the profile block only when user is set ({user && (...)}).
DashboardView ==
    IF ~dash.mounted THEN "none"
    ELSE IF dash.loading THEN "Loading..."
    ELSE IF dash.user # "none" THEN "profile"
    ELSE "page without profile"

\* ------------------------------------------------------------ auth forms
\* the character classes the validation of the forms tells apart
LowerChars == {"a", "b", "c", "d", "e", "f", "g", "l", "o"}
UpperChars == {"A", "B", "C", "D", "E", "F"}
DigitChars == {"1", "2", "3", "4", "5", "6"}
SpecialChars == {"!", "@", "#", "$", "%", "^", "&", "*"}
Whitespace == {" "}

\* !s.trim(): the string is empty once leading and trailing whitespace is cut
Blank(s) == \A i \in 1..Len(s) : s[i] \in Whitespace

\* /^[^\s@]+@[^\s@]+\.[^\s@]+$/.test(s)
WellFormedEmail(s) ==
    \E i, j \in 1..Len(s) :
        /\ 1 < i /\ i + 1 < j /\ j < Len(s)
        /\ s[i] = "@"
        /\ s[j] = "."
        /\ \A k \in 1..Len(s) : s[k] \notin Whitespace /\ (s[k] = "@" => k = i)

\* /(?=.*[a-z])/, /(?=.*[A-Z])/, /(?=.*\d)/, /(?=.*[!@#$%^&*])/
HasLower(s) == \E i \in 1..Len(s) : s[i] \in LowerChars
HasUpper(s) == \E i \in 1..Len(s) : s[i] \in UpperChars
HasDigit(s) == \E i \in 1..Len(s) : s[i] \in DigitChars
HasSpecial(s) == \E i \in 1..Len(s) : s[i] \in SpecialChars

\* the checks on the password shared by validateForm and validatePassword: the
\* message of the first check that fails, "" when all pass
PasswordError(pw, confirm) ==
    IF Len(pw) < MinPasswordLength THEN "Password must be at least 8 characters long"
    ELSE IF ~HasLower(pw) THEN "Password must contain at least one lowercase letter"
    ELSE IF ~HasUpper(pw) THEN "Password must contain at least one uppercase letter"
    ELSE IF ~HasDigit(pw) THEN "Password must contain at least one number"
    ELSE IF ~HasSpecial(pw)
         THEN "Password must contain at least one special character (!@#$%^&*)"
    ELSE IF pw # confirm THEN "Passwords do not match"
    ELSE ""

\* validateForm accepts a form whose passwords differ
validateFormMutantNoConfirm(d) ==
    IF Blank(d.firstName) THEN "First name is required"
    ELSE IF Blank(d.lastName) THEN "Last name is required"
    ELSE IF Blank(d.email) THEN "Email is required"
    ELSE IF ~WellFormedEmail(d.email) THEN "Please enter a valid email address"
    ELSE PasswordError(d.password, d.password)

\* SignUp.validateForm: the message it sets, "" when it returns true
validateForm(d) ==
    IF Blank(d.firstName) THEN "First name is required"
    ELSE IF Blank(d.lastName) THEN "Last name is required"
    ELSE IF Blank(d.email) THEN "Email is required"
    ELSE IF ~WellFormedEmail(d.email) THEN "Please enter a valid email address"
    ELSE PasswordError(d.password, d.confirmPassword)

\* ResetPassword.validatePassword
validatePassword(d) == PasswordError(d.password, d.confirmPassword)

\* what the user types into the forms
AliceEmail == <<"a", "l", "@", "b", ".", "c", "o">>
Malformed == <<"a", "l", "@", "b">>
GoodPassword == <<"A", "b", "c", "d", "e", "f", "1", "!">>
Code == <<"1", "2", "3", "4", "5", "6">>
Emails == {<<>>, <<" ">>, Malformed, AliceEmail}
Names == {<<>>, <<" ">>, <<"A", "l">>}
Passwords ==
    {<<>>, GoodPassword,
     <<"A", "b", "c", "d", "e", "1", "!">>,          \* seven characters
     <<"A", "B", "C", "D", "E", "F", "1", "!">>,     \* no lowercase letter
     <<"a", "b", "c", "d", "e", "f", "1", "!">>,     \* no uppercase letter
     <<"A", "b", "c", "d", "e", "f", "g", "!">>,     \* no digit
     <<"A", "b", "c", "d", "e", "f", "g", "1">>}     \* no special character

\* the user of the pool an email address belongs to
UserOf(email) == IF email = AliceEmail THEN "alice" ELSE "bob"

\* a sign-up form filled in correctly, and the same with one field changed
GoodSignUp == [NoData EXCEPT !.firstName = <<"A", "l">>, !.lastName = <<"A", "l">>,
                             !.email = AliceEmail, !.password = GoodPassword,
                             !.confirmPassword = GoodPassword]
SignUpInputs ==
    {GoodSignUp}
    \cup {[GoodSignUp EXCEPT !.firstName = n] : n \in Names}
    \cup {[GoodSignUp EXCEPT !.lastName = n] : n \in Names}
    \cup {[GoodSignUp EXCEPT !.email = e] : e \in Emails}
    \cup {[GoodSignUp EXCEPT !.password = p, !.confirmPassword = p] : p \in Passwords}
    \cup {[GoodSignUp EXCEPT !.confirmPassword = <<>>]}

\* what can be typed into the form of each route
Inputs(r) ==
    CASE r = "/login" ->
            {[NoData EXCEPT !.email = e, !.password = p] :
                e \in {<<>>, <<" ">>, AliceEmail}, p \in {<<>>, <<" ">>, GoodPassword}}
      [] r = "/signup" -> SignUpInputs
      [] r = "/forgot-password" -> {[NoData EXCEPT !.email = e] : e \in Emails}
      [] r = "/verify-email" -> {[NoData EXCEPT !.code = c] : c \in {<<>>, <<" ">>, Code}}
      [] r = "/reset-password" ->
            {[NoData EXCEPT !.code = c, !.password = p, !.confirmPassword = GoodPassword] :
                c \in {<<>>, Code}, p \in {<<>>, GoodPassword, Malformed}}
      [] OTHER -> {}

\* the routes whose form takes the email from the navigation state; their
\* fields and buttons are disabled={... || !email}
NeedsEmail == {"/verify-email", "/reset-password"}

\* disabled of the inputs of the form at the current route
InputsDisabled == form.loading \/ (route \in NeedsEmail /\ form.email = <<>>)

\* disabled of the submit button of the form at the current route
SubmitDisabled == form.loading \/ (route \in NeedsEmail /\ form.email = <<>>)

\* disabled={resending || !email} of the Resend Code button
ResendDisabled == form.resending \/ form.email = <<>>

\* handleChange, and the onChange of the single fields: the typed value is
\* stored and the messages are cleared
handleChange(d) ==
    /\ d \in Inputs(route)
    /\ d # form.data
    /\ ~InputsDisabled
    /\ form' = [form EXCEPT !.data = d, !.error = "", !.success = ""]
    /\ UNCHANGED <<route, session, signedUp, dash, orphans, inflight, timers, deployVars>>

\* a request handed to Amplify: the api, the username it is for, and whether
\* the component that sent it is still mounted
Request(api, email) == [api |-> api, email |-> email, live |-> TRUE]

\* the requests still pending once request i has settled
Settled(i) == SubSeq(inflight, 1, i - 1) \o SubSeq(inflight, i + 1, Len(inflight))

\* The handler returns early with a message: setError(msg); return
Rejects(msg) ==
    /\ form' = [form EXCEPT !.error = msg, !.success = ""]
    /\ UNCHANGED <<route, session, signedUp, dash, orphans, inflight, timers, deployVars>>

\* setLoading(true) (or setResending(true)) and the await of the request
Sends(api, email, flag) ==
    /\ form' = [form EXCEPT !.error = "", !.success = "", ![flag] = TRUE]
    /\ inflight' = Append(inflight, Request(api, email))
    /\ UNCHANGED <<route, session, signedUp, dash, orphans, timers, deployVars>>

\* navigate(to, { state: { email } }) from a handler, a settled request or a
\* timer.  The component of another route is mounted afresh and what was
\* mounted is left behind; on the same route only location.state changes.
Navigate(to, email, reqs) ==
    /\ ~dash.signingOut
    /\ (route = "/dashboard" /\ to # route /\ dash.check # "none") => orphans < MaxOrphans
    /\ to # route => FewOrphaned(reqs)
    /\ route' = to
    /\ dash' = IF to # "/dashboard" THEN NoDashboard
               ELSE IF route = to THEN dash ELSE MountedDashboard
    /\ orphans' = IF route = "/dashboard" /\ to # route /\ dash.check # "none"
                  THEN orphans + 1 ELSE orphans
    /\ form' = IF to = route THEN [form EXCEPT !.email = email] ELSE FreshForm(email)
    /\ inflight' = IF to = route THEN reqs ELSE Orphaned(reqs)

\* Request i settles without a navigation: the messages and the flag are set
\* if the component is still mounted.
Stays(i, err, succ, flag) ==
    /\ form' = IF inflight[i].live
               THEN [form EXCEPT !.error = err, !.success = succ, ![flag] = FALSE]
               ELSE form
    /\ inflight' = Settled(i)
    /\ UNCHANGED <<route, dash, orphans>>

\* setTimeout(() => navigate(to, state), 2000)
After2s(to, email) == timers' = timers \cup {[to |-> to, email |-> email]}

\* a timer set by a form fires, whether or not the form is still mounted
TimerFires(t) ==
    /\ t \in timers
    /\ Navigate(t.to, t.email, inflight)
    /\ timers' = timers \ {t}
    /\ UNCHANGED <<session, signedUp, deployVars>>

\* ---- Login
\* what signIn can answer: signed in, a next step, or an exception by name
SignInOutcomes == {"isSignedIn", "CONFIRM_SIGN_UP",
                   "CONFIRM_SIGN_IN_WITH_NEW_PASSWORD_REQUIRED",
                   "UserNotConfirmedException", "NotAuthorizedException",
                   "UserNotFoundException", "NetworkError"}

\* Login.handleSubmit up to the await
LoginHandleSubmit ==
    /\ route = "/login"
    /\ ~SubmitDisabled
    /\ IF Blank(form.data.email) \/ Blank(form.data.password)
       THEN Rejects("Please enter both email and password")
       ELSE Sends("signIn", form.data.email, "loading")

\* the message of the catch block of Login.handleSubmit
LoginError(name) ==
    CASE name = "UserNotConfirmedException" ->
            "Please verify your email address before logging in."
      [] name = "NotAuthorizedException" ->
            "Incorrect email or password. Please try again."
      [] name = "UserNotFoundException" ->
            "No account found with this email. Please sign up."
      [] OTHER -> "An error occurred during login. Please try again."

\* Login.handleSubmit after the await: the try, catch and finally blocks
SignInSettles(i, o) ==
    /\ i \in 1..Len(inflight)
    /\ inflight[i].api = "signIn"
    /\ o \in SignInOutcomes
    /\ o = "isSignedIn" => session = "none"
    /\ CASE o = "isSignedIn" ->
                /\ Navigate("/dashboard", <<>>, Settled(i))
                /\ session' = UserOf(inflight[i].email)
                /\ UNCHANGED <<signedUp, timers>>
         [] o = "CONFIRM_SIGN_UP" ->
                /\ Navigate("/verify-email", inflight[i].email, Settled(i))
                /\ UNCHANGED <<session, signedUp, timers>>
         [] o = "CONFIRM_SIGN_IN_WITH_NEW_PASSWORD_REQUIRED" ->
                /\ Stays(i, form.error, form.success, "loading")
                /\ UNCHANGED <<session, signedUp, timers>>
         [] o = "UserNotConfirmedException" ->
                /\ Stays(i, LoginError(o), form.success, "loading")
                /\ After2s("/verify-email", inflight[i].email)
                /\ UNCHANGED <<session, signedUp>>
         [] OTHER ->
                /\ Stays(i, LoginError(o), form.success, "loading")
                /\ UNCHANGED <<session, signedUp, timers>>
    /\ UNCHANGED deployVars

\* ---- SignUp
SignUpOutcomes == {"ok", "UsernameExistsException", "InvalidPasswordException",
                   "InvalidParameterException", "NetworkError"}

\* SignUp.handleSubmit up to the await
SignUpHandleSubmit ==
    /\ route = "/signup"
    /\ ~SubmitDisabled
    /\ IF validateForm(form.data) # ""
       THEN Rejects(validateForm(form.data))
       ELSE Sends("signUp", form.data.email, "loading")

\* the message of the catch block of SignUp.handleSubmit (err.message || ...)
SignUpError(name) ==
    CASE name = "UsernameExistsException" ->
            "An account with this email already exists. Please log in or use a different email."
      [] name = "InvalidPasswordException" -> "Password does not meet requirements"
      [] name = "InvalidParameterException" ->
            "Invalid input. Please check your information and try again."
      [] OTHER -> "An error occurred during sign up. Please try again."

\* the catch block navigates to the verification page as the try block does
SignUpSettlesMutantAlwaysNavigates(i, o) ==
    /\ i \in 1..Len(inflight)
    /\ inflight[i].api = "signUp"
    /\ o \in SignUpOutcomes
    /\ o = "ok" => inflight[i].email \notin signedUp
    /\ Navigate("/verify-email", inflight[i].email, Settled(i))
    /\ signedUp' = IF o = "ok" THEN signedUp \cup {inflight[i].email} ELSE signedUp
    /\ UNCHANGED <<session, timers, deployVars>>

\* SignUp.handleSubmit after the await; the user pool accepts a username once
SignUpSettles(i, o) ==
    /\ i \in 1..Len(inflight)
    /\ inflight[i].api = "signUp"
    /\ o \in SignUpOutcomes
    /\ o = "ok" => inflight[i].email \notin signedUp
    /\ IF o = "ok"
       THEN /\ Navigate("/verify-email", inflight[i].email, Settled(i))
            /\ signedUp' = signedUp \cup {inflight[i].email}
       ELSE /\ Stays(i, SignUpError(o), form.success, "loading")
            /\ UNCHANGED signedUp
    /\ UNCHANGED <<session, timers, deployVars>>

\* ---- ForgotPassword
ResetPasswordOutcomes == {"ok", "UserNotFoundException", "LimitExceededException",
                          "NetworkError"}

\* ForgotPassword.handleSubmit up to the await
ForgotPasswordHandleSubmit ==
    /\ route = "/forgot-password"
    /\ ~SubmitDisabled
    /\ IF Blank(form.data.email) THEN Rejects("Please enter your email address")
       ELSE IF ~WellFormedEmail(form.data.email)
            THEN Rejects("Please enter a valid email address")
       ELSE Sends("resetPassword", form.data.email, "loading")

ForgotPasswordError(name) ==
    CASE name = "UserNotFoundException" -> "No account found with this email address."
      [] name = "LimitExceededException" -> "Too many attempts. Please try again later."
      [] OTHER -> "An error occurred. Please try again."

\* ForgotPassword.handleSubmit after the await
ResetPasswordSettles(i, o) ==
    /\ i \in 1..Len(inflight)
    /\ inflight[i].api = "resetPassword"
    /\ o \in ResetPasswordOutcomes
    /\ IF o = "ok"
       THEN Navigate("/reset-password", inflight[i].email, Settled(i))
       ELSE Stays(i, ForgotPasswordError(o), form.success, "loading")
    /\ UNCHANGED <<session, signedUp, timers, deployVars>>

\* ---- VerifyEmail
ConfirmSignUpOutcomes == {"ok", "CodeMismatchException", "ExpiredCodeException",
                          "NotAuthorizedException", "NetworkError"}
ResendSignUpCodeOutcomes == {"ok", "NetworkError"}

\* the handler sends the request whatever the navigation state holds
VerifyEmailHandleSubmitMutantNoEmailCheck ==
    /\ route = "/verify-email"
    /\ ~form.loading
    /\ IF Blank(form.data.code) /\ form.email # <<>>
       THEN Rejects("Please enter the verification code")
       ELSE Sends("confirmSignUp", form.email, "loading")

\* VerifyEmail.handleSubmit up to the await
VerifyEmailHandleSubmit ==
    /\ route = "/verify-email"
    /\ ~SubmitDisabled
    /\ IF Blank(form.data.code) THEN Rejects("Please enter the verification code")
       ELSE IF form.email = <<>> THEN Rejects("Email not found. Please sign up again.")
       ELSE Sends("confirmSignUp", form.email, "loading")

VerifyEmailError(name) ==
    CASE name = "CodeMismatchException" ->
            "Invalid verification code. Please check and try again."
      [] name = "ExpiredCodeException" ->
            "Verification code has expired. Please request a new code."
      [] name = "NotAuthorizedException" -> "User is already verified. Please log in."
      [] OTHER -> "An error occurred during verification. Please try again."

\* VerifyEmail.handleSubmit after the await
ConfirmSignUpSettles(i, o) ==
    /\ i \in 1..Len(inflight)
    /\ inflight[i].api = "confirmSignUp"
    /\ o \in ConfirmSignUpOutcomes
    /\ IF o = "ok"
       THEN Stays(i, form.error, "Email verified successfully! Redirecting to login...",
                  "loading")
       ELSE Stays(i, VerifyEmailError(o), form.success, "loading")
    /\ IF o \in {"ok", "NotAuthorizedException"}
       THEN After2s("/login", <<>>)
       ELSE UNCHANGED timers
    /\ UNCHANGED <<session, signedUp, deployVars>>

\* VerifyEmail.handleResendCode up to the await
handleResendCode ==
    /\ route = "/verify-email"
    /\ ~ResendDisabled
    /\ IF form.email = <<>> THEN Rejects("Email not found. Please sign up again.")
       ELSE Sends("resendSignUpCode", form.email, "resending")

\* VerifyEmail.handleResendCode after the await
ResendSignUpCodeSettles(i, o) ==
    /\ i \in 1..Len(inflight)
    /\ inflight[i].api = "resendSignUpCode"
    /\ o \in ResendSignUpCodeOutcomes
    /\ IF o = "ok"
       THEN Stays(i, form.error, "Verification code resent! Please check your email.",
                  "resending")
       ELSE Stays(i, "Failed to resend code. Please try again.", form.success,
                  "resending")
    /\ UNCHANGED <<session, signedUp, timers, deployVars>>

\* ---- ResetPassword
ConfirmResetPasswordOutcomes == {"ok", "CodeMismatchException", "ExpiredCodeException",
                                 "InvalidPasswordException", "NetworkError"}

\* ResetPassword.handleSubmit up to the await
ResetPasswordHandleSubmit ==
    /\ route = "/reset-password"
    /\ ~SubmitDisabled
    /\ IF Blank(form.data.code) THEN Rejects("Please enter the verification code")
       ELSE IF validatePassword(form.data) # "" THEN Rejects(validatePassword(form.data))
       ELSE IF form.email = <<>>
            THEN Rejects("Email not found. Please start the password reset process again.")
       ELSE Sends("confirmResetPassword", form.email, "loading")

ResetPasswordError(name) ==
    CASE name = "CodeMismatchException" ->
            "Invalid verification code. Please check and try again."
      [] name = "ExpiredCodeException" ->
            "Verification code has expired. Please request a new one."
      [] name = "InvalidPasswordException" -> "Password does not meet requirements"
      [] OTHER -> "An error occurred. Please try again."

\* ResetPassword.handleSubmit after the await
ConfirmResetPasswordSettles(i, o) ==
    /\ i \in 1..Len(inflight)
    /\ inflight[i].api = "confirmResetPassword"
    /\ o \in ConfirmResetPasswordOutcomes
    /\ IF o = "ok"
       THEN Stays(i, form.error, "Password reset successfully! Redirecting to login...",
                  "loading")
       ELSE Stays(i, ResetPasswordError(o), form.success, "loading")
    /\ IF o = "ok" THEN After2s("/login", <<>>) ELSE UNCHANGED timers
    /\ UNCHANGED <<session, signedUp, deployVars>>

\* the notice rendered under {!email && (...)} on the pages that need an email
RestartNotice == route \in NeedsEmail /\ form.email = <<>>

\* {error && <div className="error-message">{error}</div>}
ErrorShown == route \notin {"/dashboard"} /\ form.error # ""

NextFrontend ==
    \/ \E to \in Routes : UserNavigates(to)
    \/ \E u \in Users : SessionStarts(u)
    \/ SessionEnds
    \/ \E ok \in BOOLEAN : GetCurrentUserSettles(ok)
    \/ \E ok \in BOOLEAN : FetchUserAttributesSettles(ok)
    \/ \E ok \in BOOLEAN : OrphanSettles(ok)
    \/ SignOutClick
    \/ \E ok \in BOOLEAN : SignOutSettles(ok)

\* the web application alone, on a deployment that does not change
SpecFrontend == Init /\ [][NextFrontend]_vars

\* the auth forms are used on an account without identity-service instances
InitForms == Init /\ instances = 0

\* the web application with its auth forms: a session starts with a signIn of
\* the login form and ends with the signOut of the Dashboard
NextForms ==
    \/ \E to \in Routes : UserNavigates(to)
    \/ \E ok \in BOOLEAN : GetCurrentUserSettles(ok)
    \/ \E ok \in BOOLEAN : FetchUserAttributesSettles(ok)
    \/ \E ok \in BOOLEAN : OrphanSettles(ok)
    \/ SignOutClick
    \/ \E ok \in BOOLEAN : SignOutSettles(ok)
    \/ \E d \in Inputs(route) : handleChange(d)
    \/ \E t \in timers : TimerFires(t)
    \/ LoginHandleSubmit
    \/ \E i \in DOMAIN inflight, o \in SignInOutcomes : SignInSettles(i, o)
    \/ SignUpHandleSubmit
    \/ \E i \in DOMAIN inflight, o \in SignUpOutcomes : SignUpSettles(i, o)
    \/ ForgotPasswordHandleSubmit
    \/ \E i \in DOMAIN inflight, o \in ResetPasswordOutcomes : ResetPasswordSettles(i, o)
    \/ VerifyEmailHandleSubmit
    \/ \E i \in DOMAIN inflight, o \in ConfirmSignUpOutcomes : ConfirmSignUpSettles(i, o)
    \/ handleResendCode
    \/ \E i \in DOMAIN inflight, o \in ResendSignUpCodeOutcomes :
            ResendSignUpCodeSettles(i, o)
    \/ ResetPasswordHandleSubmit
    \/ \E i \in DOMAIN inflight, o \in ConfirmResetPasswordOutcomes :
            ConfirmResetPasswordSettles(i, o)

SpecForms == InitForms /\ [][NextForms]_vars

\* ------------------------------------------------------- deletion script
\* destroy-cloudformation.sh: the operator starts the deletion script.
StartDestroy ==
    /\ pc = "idle"
    /\ runs < MaxRuns
    /\ runs' = runs + 1
    /\ args' = NoArgs
    /\ pc' = "destroy_confirm"
    /\ credential' = NoKey
    /\ seen' = NoSeen
    /\ outputs' = NoOutputs
    /\ calls' = <<>>
    /\ prompts' = 0
    /\ answers' = <<>>
    /\ polls' = 0
    /\ log' = <<>>
    /\ outcome' = NoOutcome
    /\ pre' = Snapshot
    /\ UNCHANGED <<localVars, backstage>>
    /\ UNCHANGED <<remoteVars, prev>>

\* the lines the operator may type at the confirmation of the deletion, each
\* with its characters
Typed ==
    [yes |-> <<"y", "e", "s">>, YES |-> <<"Y", "E", "S">>, Yes |-> <<"Y", "e", "s">>,
     yEs |-> <<"y", "E", "s">>, no |-> <<"n", "o">>, NO |-> <<"N", "O">>,
     y |-> <<"y">>, ye |-> <<"y", "e">>, yess |-> <<"y", "e", "s", "s">>,
     oyes |-> <<"o", "y", "e", "s">>, empty |-> <<>>]
Replies == {"yes", "YES", "Yes", "yEs", "no", "NO", "y", "ye", "yess", "oyes", "empty"}

\* the pattern matches anywhere in the reply
ConfirmsMutantUnanchored(reply) ==
    \E i \in 1..Len(Typed[reply]) :
        /\ i + 2 <= Len(Typed[reply])
        /\ Typed[reply][i] \in {"Y", "y"}
        /\ Typed[reply][i + 1] \in {"E", "e"}
        /\ Typed[reply][i + 2] \in {"S", "s"}

\* [[ $REPLY =~ ^[Yy][Ee][Ss]$ ]]
Confirms(reply) ==
    /\ Len(Typed[reply]) = 3
    /\ Typed[reply][1] \in {"Y", "y"}
    /\ Typed[reply][2] \in {"E", "e"}
    /\ Typed[reply][3] \in {"S", "s"}

\* read -p "Are you sure you want to continue? (yes/no): "
AnswerDestroy(ans) ==
    /\ pc = "destroy_confirm"
    /\ prompts' = prompts + 1
    /\ answers' = Append(answers, <<"destroy", ans>>)
    /\ IF Confirms(ans)
       THEN /\ pc' = "destroy_bucket_name"
            /\ UNCHANGED <<log, outcome>>
       ELSE /\ log' = Append(log, Line("progress", "Deletion cancelled.", <<>>))
            /\ outcome' = [kind |-> "SUCCESS", exit |-> 0, error |-> "none"]
            /\ pc' = "done"
    /\ UNCHANGED <<localVars, backstage>>
    /\ UNCHANGED <<remoteVars, runs, args, credential, seen, outputs, calls, polls,
                   pre, prev>>

\* BUCKET_NAME=$(aws cloudformation describe-stacks --query ... || echo "")
DestroyGetBucketName ==
    /\ pc = "destroy_bucket_name"
    /\ calls' = Append(calls, "describe-stacks")
    /\ outputs' = [k \in {"WebsiteBucketName"} |-> QueryOutput(StackOutputs, k)]
    /\ pc' = IF outputs'["WebsiteBucketName"] # <<>> THEN "destroy_empty_bucket"
             ELSE "destroy_delete_stack"
    /\ UNCHANGED <<localVars, backstage>>
    /\ UNCHANGED <<remoteVars, runs, args, credential, seen, prompts, answers, polls,
                   log, outcome, pre, prev>>

\* aws s3 rm s3://${BUCKET_NAME}/ --recursive || true: the objects are removed
\* when the command succeeds, and the script goes on when it does not.
DestroyEmptyBucket(ok) ==
    /\ pc = "destroy_empty_bucket"
    /\ calls' = Append(calls, "s3 rm")
    /\ bucket' = IF ok THEN EmptyBucket ELSE bucket
    /\ log' = Append(log, Line("progress", "S3 bucket emptied", <<>>))
    /\ pc' = "destroy_delete_stack"
    /\ UNCHANGED <<localVars, backstage>>
    /\ UNCHANGED <<stackStatus, stackGen, deployed, pending, secret, instances,
                   invalidations, runs, args, credential, seen, outputs, prompts,
                   answers, polls, outcome, pre, prev>>

\* aws cloudformation delete-stack: accepted for a stack that is absent too
DestroyDeleteStack ==
    /\ pc = "destroy_delete_stack"
    /\ calls' = Append(calls, "delete-stack")
    /\ IF stackStatus = "NOT_FOUND"
       THEN UNCHANGED <<stackStatus, pending>>
       ELSE /\ stackStatus' = "DELETE_IN_PROGRESS"
            /\ pending' = NoDeployment
    /\ polls' = 0
    /\ pc' = "destroy_wait"
    /\ UNCHANGED <<localVars, backstage>>
    /\ UNCHANGED <<stackGen, deployed, secret, instances, bucket, invalidations,
                   runs, args, credential, seen, outputs, prompts, answers, log,
                   outcome, pre, prev>>

\* aws cloudformation wait stack-delete-complete
DestroyWait ==
    /\ pc = "destroy_wait"
    /\ Wait("wait stack-delete-complete", "NOT_FOUND", "DELETE_IN_PROGRESS",
            "destroy_report")

DestroyReport ==
    /\ pc = "destroy_report"
    /\ log' = log \o <<Line("progress", "Stack deleted successfully", <<>>),
                       Line("progress", "All resources have been removed.", <<>>)>>
    /\ outcome' = [kind |-> "SUCCESS", exit |-> 0, error |-> "none"]
    /\ pc' = "done"
    /\ UNCHANGED <<localVars, backstage>>
    /\ UNCHANGED <<remoteVars, runs, args, credential, seen, outputs, calls, prompts,
                   answers, polls, pre, prev>>

\* ------------------------------------------------------------ specification

\* the steps of a run once it has started, and the steps of the services
Steps ==
    \/ ValidateArgs
    \/ ProbeIdentity
    \/ \E ans \in Answers : AnswerCreateInstance(ans)
    \/ \E seed \in 1..MaxSeed : EnsureCredential(seed)
    \/ Rotate
    \/ ValidateTemplate
    \/ DescribeStack
    \/ PollStack
    \/ \E ans \in Answers : AnswerUpdate(ans)
    \/ \E ans \in Answers : AnswerRecreate(ans)
    \/ DeleteStack
    \/ WaitDelete
    \/ CreateStack
    \/ WaitCreate
    \/ CreateChangeSet
    \/ WaitChangeSet
    \/ ExecuteChangeSet
    \/ WaitUpdate
    \/ RetrieveOutputs
    \/ ConfigureFrontend
    \/ BuildFrontend
    \/ SyncAssets
    \/ CopyIndex
    \/ CreateInvalidation
    \/ WaitInvalidation
    \/ Report
    \/ EndRun
    \/ \E ok \in BOOLEAN : ServiceProgress(ok)
    \/ InvalidationProgress

\* The scheduler passes from one invocation of the script to the other: each
\* is a process of its own, and their commands interleave in any order.
Switch ==
    /\ other' = RunView
    /\ pc' = other.pc
    /\ args' = other.args
    /\ credential' = other.credential
    /\ seen' = other.seen
    /\ outputs' = other.outputs
    /\ calls' = other.calls
    /\ prompts' = other.prompts
    /\ answers' = other.answers
    /\ polls' = other.polls
    /\ log' = other.log
    /\ outcome' = other.outcome
    /\ pre' = other.pre
    /\ UNCHANGED <<remoteVars, localVars, runs, prev, frontendVars>>

\* Runs on the template file as it is written: versions that declare the five
\* outputs, and version 0, which is malformed.
Next ==
    \/ \E f \in BOOLEAN, k \in ExplicitKeys, t \in 0..MaxTemplate : StartRun(f, k, t)
    \/ Steps

\* Runs on any version of the template, those that leave out an output included.
NextTemplates ==
    \/ \E f \in BOOLEAN, k \in ExplicitKeys, t \in 1..(MaxTemplate + Len(Omitted)) :
            StartRun(f, k, t)
    \/ Steps

Spec == Init /\ [][Next]_vars

\* the same behaviours, with the previous run remembered
SpecHistory == InitHistory /\ [][Next]_vars

\* Two invocations of ./deploy-cloudformation.sh, the second started at any
\* moment of the first, each on a template file that is valid.
NextConcurrent ==
    \/ \E t \in 1..MaxTemplate : runs <= 1 /\ StartRun(TRUE, NoKey, t)
    \/ Switch
    \/ ValidateArgs
    \/ ProbeIdentity
    \/ \E seed \in 1..MaxSeed : EnsureCredential(seed)
    \/ ValidateTemplate
    \/ DescribeStack
    \/ CreateStack
    \/ WaitCreate
    \/ CreateChangeSet
    \/ WaitChangeSet
    \/ ExecuteChangeSet
    \/ WaitUpdate
    \/ RetrieveOutputs
    \/ ConfigureFrontend
    \/ BuildFrontend
    \/ SyncAssets
    \/ CopyIndex
    \/ CreateInvalidation
    \/ WaitInvalidation
    \/ Report
    \/ EndRun
    \/ \E ok \in BOOLEAN : ServiceProgress(ok)
    \/ InvalidationProgress

SpecConcurrent == Init /\ [][NextConcurrent]_vars

\* The deployment script and the deletion script, run one after the other in
\* any order.
NextDestroy ==
    \/ Next
    \/ StartDestroy
    \/ \E ans \in Replies : AnswerDestroy(ans)
    \/ DestroyGetBucketName
    \/ \E ok \in BOOLEAN : DestroyEmptyBucket(ok)
    \/ DestroyDeleteStack
    \/ DestroyWait
    \/ DestroyReport

SpecDestroy == Init /\ [][NextDestroy]_vars

\* the same script, run on templates that may leave out an output
SpecTemplates == Init /\ [][NextTemplates]_vars

\* the steps in which the run waits for the services
WaitPcs == {"poll_stack", "wait_delete", "wait_create", "wait_update",
            "wait_invalidation"}
WaitSteps == PollStack \/ WaitDelete \/ WaitCreate \/ WaitUpdate \/ WaitInvalidation

\* The script is a blocking process: a wait that can poll again does so.  The
\* services and the operator owe nothing.
SpecLive == Init /\ [][Next]_vars /\ WF_<<pc, polls>>(WaitSteps)

\* The script on an account where the describe call may be refused and where
\* a failed creation is seen rolling back.
NextProbe ==
    \/ Next
    \/ DescribeRefused
    \/ RollbackStarts
    \/ RollbackEnds

SpecProbe == Init /\ [][NextProbe]_vars


\* ------------------------------------------------------------------ claims
\* the credential manager of the run has acted
CredentialEnsured == pc # "idle" /\ Issued("readSecret")

\* C1: in every run that starts with a credential stored at the secret path, the
\* credential returned by the credential manager and used for the deployment is
\* the stored value, whatever the generator or the operator supplies; nothing is
\* generated or written.
C1_StoredCredentialIsReused ==
    (CredentialEnsured /\ pre.secret # NoKey) =>
        /\ credential = pre.secret
        /\ secret = pre.secret
        /\ ~Issued("writeSecret")
        /\ (pc \in {"wait_create", "wait_update"} /\ pending # NoDeployment
                => pending.key = pre.secret)

\* a second run that was given another key and deployed with the stored one
C1_Witness ==
    /\ CredentialEnsured
    /\ pre.secret # NoKey
    /\ args.key = LongKey
    /\ pre.secret # LongKey
    /\ pc = "wait_update"
    /\ pending.key = pre.secret

\* C2: once a credential is stored at the secret path, no step of any run changes
\* the stored value; only the operator's explicit rotation replaces it.
C2_StoredCredentialNeverOverwritten ==
    [][(secret # NoKey /\ secret' # secret) => Rotate]_vars

\* a run that found a stored credential, was given another key, and completed
C2_Witness ==
    /\ pc = "done"
    /\ outcome.kind = "SUCCESS"
    /\ pre.secret # NoKey
    /\ args.key \notin {NoKey, pre.secret}
    /\ secret = pre.secret

LastAnswer == IF answers = <<>> THEN <<"none", "none">> ELSE answers[Len(answers)]

\* the remote state is what it was when the run started
RemoteUntouched ==
    /\ Snapshot = pre
    /\ pending = NoDeployment

\* C4: a run that starts with the stack SUCCEEDED, without force, in which the
\* operator declines the update issues no mutating call (create, update, delete,
\* secret write, upload, invalidation) and reports exactly the outputs that the
\* describe call returned before the decision.
C4_DeclinedUpdateIsNoOp ==
    (/\ pc = "done"
     /\ ~args.force
     /\ Classify(pre.status) = "SUCCEEDED"
     /\ LastAnswer = <<"update", "no">>) =>
        /\ \A i \in 1..Len(calls) : calls[i] \notin MutatingCalls
        /\ outputs = seen.outputs
        /\ outputs = OutputsOf(pre.stackGen, pre.deployed.key)
        /\ RemoteUntouched
        /\ \E i \in 1..Len(log) : log[i] = OutputLines(seen.outputs)[1]

\* the operator has declined the update of a successful stack
C4_Witness ==
    /\ pc = "done"
    /\ ~args.force
    /\ pre.status = "CREATE_COMPLETE"
    /\ answers = <<<<"update", "no">>>>
    /\ outputs # NoOutputs

\* C5: a run that starts with the stack FAILED in which the operator answers "no"
\* to delete-and-recreate ends with outcome FAILURE, issues no delete, create or
\* update call, and leaves the stack as it was.
C5_DeclinedRecreateFails ==
    (/\ pc = "done"
     /\ ~args.force
     /\ Classify(pre.status) = "FAILED"
     /\ LastAnswer = <<"recreate", "no">>) =>
        /\ outcome.kind = "FAILURE"
        /\ outcome.exit # 0
        /\ \A i \in 1..Len(calls) :
                calls[i] \notin {"delete-stack", "create-stack", "create-change-set",
                                 "execute-change-set"}
        /\ stackStatus = pre.status
        /\ stackGen = pre.stackGen
        /\ deployed = pre.deployed

\* the operator has declined to delete a stack whose creation was rolled back
C5_Witness ==
    /\ pc = "done"
    /\ ~args.force
    /\ pre.status = "ROLLBACK_COMPLETE"
    /\ answers = <<<<"recreate", "no">>>>
    /\ outcome.kind = "FAILURE"

\* the run has taken its decision on the stack
Decided ==
    /\ Issued("describe-stacks")
    /\ pc \notin {"idle", "describe", "poll_stack"}

\* C6: in force mode, whatever the state of the stack, the run never prompts the
\* operator and never issues a delete call; it issues an update (a change set)
\* when the stack exists and a create when it is absent.
C6_ForceNeverPromptsNeverDeletes ==
    (pc # "idle" /\ args.force) =>
        /\ prompts = 0
        /\ answers = <<>>
        /\ pc \notin {"prompt_instance", "prompt_update", "prompt_recreate",
                      "delete_stack", "wait_delete"}
        /\ ~Issued("delete-stack")
        /\ Decided =>
            IF seen.status # "NOT_FOUND"
            THEN /\ ~Issued("create-stack")
                 /\ pc = "create_change_set" \/ Issued("create-change-set")
            ELSE /\ ~Issued("create-change-set")
                 /\ pc = "create_stack" \/ Issued("create-stack")

\* a forced run on a stack whose creation was rolled back has issued its update
C6_Witness ==
    /\ args.force
    /\ pc = "done"
    /\ Classify(pre.status) = "FAILED"
    /\ Issued("create-change-set")
    /\ prompts = 0

\* what the run submits to the provisioning service
Submitted == [template |-> args.template, key |-> credential]

\* C7: an update requested with a template and parameters identical to the
\* deployed ones does not fail: the "no changes" condition counts as SUCCEEDED,
\* the run goes on to outputs, build, publish and invalidation and exits 0.
C7_NoChangesIsSuccess ==
    (/\ pc = "done"
     /\ Issued("wait change-set-create-complete")
     /\ Submitted = pre.deployed) =>
        /\ outcome.kind = "SUCCESS"
        /\ outcome.exit = 0
        /\ Issued("s3 sync")
        /\ Issued("create-invalidation")

\* C8: a run that follows a run with the same inputs, with no change of the
\* remote state in between, ends with the same outcome (kind, identifiers,
\* credential) and creates no stack, secret or identity-service instance.
C8_RerunSameOutcome ==
    (/\ pc = "done"
     /\ prev.ran
     /\ prev.quiet
     /\ prev.args = args
     /\ prev.answers = answers) =>
        /\ outcome.kind = prev.outcome.kind
        /\ outputs = prev.outputs
        /\ credential = prev.credential
        /\ ~Issued("create-stack")
        /\ ~Issued("writeSecret")
        /\ ~Issued("createInstance")

\* C9: whenever nothing is stored at the secret path and the operator supplies no
\* key, the credential that is generated and persisted has at least 32
\* characters, all alphanumeric, and passes the 20-character minimum policy.
C9_GeneratedCredentialMeetsPolicy ==
    (CredentialEnsured /\ pre.secret = NoKey /\ args.key = NoKey) =>
        /\ Issued("writeSecret")
        /\ secret = credential
        /\ Len(credential) >= GeneratedKeyLength
        /\ IsAlphanumeric(credential)
        /\ Len(credential) >= MinKeyLength
        /\ ValidKey(credential)

\* a first run without a key argument has generated and stored its credential
C9_Witness ==
    /\ pc = "validate_template"
    /\ pre.secret = NoKey
    /\ args.key = NoKey
    /\ secret # NoKey
    /\ Issued("writeSecret")

\* the run was given a key shorter than the minimum length
ShortKeySupplied == pc # "idle" /\ args.key # NoKey /\ Len(args.key) < MinKeyLength

ForcedOnAbsent ==
    /\ pc # "idle"
    /\ args.force
    /\ pre.status = "NOT_FOUND"
    /\ Issued("describe-stacks")

\* the steps of a run that follow the deployment of the stack
AfterDeployment == {"retrieve_outputs", "configure", "build", "sync", "copy_index",
                    "invalidate", "wait_invalidation", "report"}

\* C11: a run that starts with the stack ABSENT and force=true issues exactly one
\* create call and no update or delete call, goes on only when the wait has seen
\* the stack SUCCEEDED, and extracts all five required outputs, none empty.
C11_ForcedCreateOnAbsent ==
    ForcedOnAbsent =>
        /\ ~Issued("create-change-set")
        /\ ~Issued("execute-change-set")
        /\ ~Issued("delete-stack")
        /\ CountOf("create-stack") <= 1
        /\ (pc \in AfterDeployment \/ (pc = "done" /\ outcome.kind = "SUCCESS")) =>
            /\ CountOf("create-stack") = 1
            /\ Issued("wait stack-create-complete")
            /\ Classify(stackStatus) = "SUCCEEDED"
            /\ stackGen = pre.stackGen + 1
        /\ (pc \in (AfterDeployment \ {"retrieve_outputs"})
            \/ (pc = "done" /\ outcome.kind = "SUCCESS")) =>
            /\ DOMAIN outputs = RequiredOutputKeys
            /\ \A k \in RequiredOutputKeys : outputs[k] # <<>>

\* a forced run on an absent stack has created it and completed
C11_Witness ==
    /\ ForcedOnAbsent
    /\ pc = "done"
    /\ outcome.kind = "SUCCESS"
    /\ CountOf("create-stack") = 1
    /\ DOMAIN outputs = RequiredOutputKeys

\* the run has extracted the outputs and one of the required values is empty
MissingOutput ==
    /\ pc # "idle"
    /\ DOMAIN outputs = RequiredOutputKeys
    /\ \E k \in RequiredOutputKeys : outputs[k] = <<>>

\* the line was printed by the run
Logged(text) == \E i \in 1..Len(log) : log[i].text = text

\* C12: if a required output (pool id, client id, bucket name, distribution id,
\* website URL) is missing or empty in the terminal stack state, the run fails at
\* output extraction: the frontend configuration is not written, nothing is
\* built, uploaded or invalidated, and the run does not report success.
C12_MissingOutputIsFatal ==
    MissingOutput =>
        /\ pc \in {"configure", "done"}
        /\ ~Logged("Frontend environment configured")
        /\ ~Logged("Frontend built successfully")
        /\ ~Issued("s3 sync")
        /\ ~Issued("s3 cp")
        /\ ~Issued("create-invalidation")
        /\ ~(pc = "done" /\ outcome.kind = "SUCCESS")

\* a run whose stack has no pool id output has reported success
C12_SuccessWithoutPoolId ==
    /\ MissingOutput
    /\ outputs["UserPoolId"] = <<>>
    /\ Logged("Frontend built successfully")
    /\ Issued("s3 cp")
    /\ pc = "done"
    /\ outcome.kind = "SUCCESS"
    /\ outcome.exit = 0

\* the calls of phase 1: validation and deployment of the stack
Phase1Calls == {"validate-template", "create-stack", "create-change-set",
                "wait change-set-create-complete", "execute-change-set",
                "wait stack-create-complete", "wait stack-update-complete"}

\* the run ended on a failure of a phase 1 call
Phase1Failed ==
    /\ pc = "done"
    /\ outcome.kind = "FAILURE"
    /\ calls # <<>>
    /\ calls[Len(calls)] \in Phase1Calls

\* the run has written, built, uploaded or invalidated nothing
NoArtifact ==
    /\ ~Logged("Frontend environment configured")
    /\ ~Logged("Frontend built successfully")
    /\ ~Issued("s3 sync")
    /\ ~Issued("s3 cp")
    /\ ~Issued("create-invalidation")

\* C13: if phase 1 fails (the template is not valid, or the create or update
\* call or its wait ends in failure) the run aborts before any artifact: no
\* frontend configuration is written, nothing is built, uploaded or invalidated.
\* Equally, the first artifact step is reached only with a valid template and
\* the stack in a successful state.
C13_Phase1FailureBuildsNothing ==
    /\ (pc # "idle" /\ ~TemplateIsValid(args.template)) =>
        /\ NoArtifact
        /\ pc \in {"validate_args", "probe_identity", "prompt_instance", "credential",
                   "validate_template", "done"}
        /\ ~(pc = "done" /\ outcome.kind = "SUCCESS")
    /\ Phase1Failed => NoArtifact /\ outcome.exit # 0
    /\ (pc # "idle" /\ ~NoArtifact) =>
        /\ TemplateIsValid(args.template)
        /\ Classify(stackStatus) = "SUCCEEDED"

\* a run on a malformed template has ended at the validation
C13_Witness ==
    /\ Phase1Failed
    /\ ~TemplateIsValid(args.template)
    /\ calls[Len(calls)] = "validate-template"
    /\ outcome.error = "TemplateInvalid"

\* a run has ended on a stack wait that saw a failed state
C13_WitnessWait ==
    /\ Phase1Failed
    /\ calls[Len(calls)] = "wait stack-create-complete"
    /\ outcome.error = "TerminalFailureState"

\* the publish of the run is complete: sync and copy have both been done
Published ==
    /\ pc \in {"invalidate", "wait_invalidation", "report", "done"}
    /\ Issued("s3 sync")
    /\ Issued("s3 cp")

\* the cache header a file of the build is to be served with
NoCacheFiles == {"index.html", "service-worker.js"}

WantedCache(f) ==
    IF f \in NoCacheFiles THEN "no-cache, no-store, must-revalidate"
    ELSE "public, max-age=31536000"

\* C14: after a successful publish every file of the build is in the bucket,
\* uploaded in that publish: index.html and the service-worker file with the
\* no-cache header, every other file with the long-lived header.
C14_EveryBuildFilePublished ==
    Published =>
        \A f \in Files :
            /\ bucket[f].build = buildDir.id
            /\ bucket[f].cache = WantedCache(f)

\* the first publish has completed and the service worker is not in the bucket
C14_ServiceWorkerNeverUploaded ==
    /\ Published
    /\ bucket["index.html"].build = buildDir.id
    /\ bucket["main.js"].build = buildDir.id
    /\ bucket["service-worker.js"] = NoObject
    /\ bucket["asset-manifest.json"] = NoObject

\* call a was issued before call b
Before(a, b) == \E i, j \in 1..Len(calls) : i < j /\ calls[i] = a /\ calls[j] = b

\* the run has created its invalidation
Invalidating ==
    /\ pc \in {"wait_invalidation", "report", "done"}
    /\ Issued("create-invalidation")
    /\ outputs["CloudFrontDistributionId"] # <<>>

\* C15: in every run that publishes, an invalidation of all paths is issued for
\* the distribution id of the stack outputs, after the upload has completed,
\* and the run reports completion only when the invalidation has completed.
C15_InvalidationAfterPublish ==
    /\ (Published /\ pc # "invalidate") =>
        /\ Issued("create-invalidation")
        /\ Before("s3 sync", "create-invalidation")
        /\ Before("s3 cp", "create-invalidation")
        /\ ~Before("create-invalidation", "s3 sync")
        /\ ~Before("create-invalidation", "s3 cp")
    /\ Invalidating =>
        /\ invalidations.paths = "/*"
        /\ invalidations.dist = outputs["CloudFrontDistributionId"]
        /\ invalidations.dist = StackOutputs["CloudFrontDistributionId"]
    /\ (pc # "idle" /\ Published /\ (pc = "report" \/ Logged("Deployment Complete!"))) =>
        /\ Issued("wait invalidation-completed")
        /\ Before("create-invalidation", "wait invalidation-completed")
        /\ invalidations.completed = invalidations.issued

\* a run has published, waited for its invalidation and reported completion
C15_Witness ==
    /\ Published
    /\ pc = "done"
    /\ Logged("Deployment Complete!")
    /\ invalidations.issued > 0
    /\ invalidations.completed = invalidations.issued
    /\ invalidations.paths = "/*"

\* line a was printed before line b
LoggedBefore(a, b) == \E i, j \in 1..Len(log) : i < j /\ log[i].text = a /\ log[j].text = b

\* C16: in every run the phases follow one another in a fixed order, each after
\* the success of the one before: the stack reaches a successful state, the
\* outputs are extracted, they are written as the build-time configuration, the
\* artifact is built, it is uploaded, the cache is invalidated; the build uses
\* the configuration written from the outputs of the deployment of the same run.
C16_PhasesInOrder ==
    pc # "idle" =>
        /\ Logged("Stack deployed successfully") =>
            /\ Classify(stackStatus) = "SUCCEEDED"
            /\ \/ Issued("wait stack-create-complete")
               \/ Issued("wait stack-update-complete")
            /\ DOMAIN outputs = RequiredOutputKeys
            /\ \A k \in RequiredOutputKeys : outputs[k] = QueryOutput(StackOutputs, k)
        /\ Logged("Frontend environment configured") =>
            /\ LoggedBefore("Stack deployed successfully", "Frontend environment configured")
            /\ envFile.pool = outputs["UserPoolId"]
            /\ envFile.client = outputs["UserPoolClientId"]
        /\ Logged("Frontend built successfully") =>
            /\ LoggedBefore("Frontend environment configured", "Frontend built successfully")
            /\ buildDir.id = runs
            /\ buildDir.env = envFile
            /\ buildDir.env.pool = StackOutputs["UserPoolId"]
        /\ Issued("s3 sync") =>
            /\ Logged("Frontend built successfully")
            /\ ~Issued("create-invalidation") \/ Before("s3 sync", "create-invalidation")
        /\ Issued("s3 cp") => Before("s3 sync", "s3 cp")
        /\ Issued("create-invalidation") =>
            /\ Before("s3 cp", "create-invalidation")
            /\ bucket["index.html"].build = runs
        /\ Logged("Deployment Complete!") =>
            Before("create-invalidation", "wait invalidation-completed")

\* a run on a fresh account has gone through every phase
C16_Witness ==
    /\ pc = "done"
    /\ pre.status = "NOT_FOUND"
    /\ Logged("Deployment Complete!")
    /\ LoggedBefore("Frontend environment configured", "Frontend built successfully")
    /\ buildDir.id = runs
    /\ bucket["main.js"].build = runs

\* every step of the script has run
EveryStepRan ==
    /\ Issued("validate-template")
    /\ Issued("wait stack-create-complete") \/ Issued("wait stack-update-complete")
    /\ Logged("Stack deployed successfully")
    /\ Logged("Frontend environment configured")
    /\ Logged("Frontend built successfully")
    /\ Issued("s3 sync")
    /\ Issued("s3 cp")
    /\ Issued("wait invalidation-completed")
    /\ Logged("CloudFront cache invalidated")

\* the run printed the final banner or the website URL summary
BannerPrinted ==
    \/ Logged("Deployment Complete!")
    \/ \E i \in 1..Len(log) : log[i].kind = "url"

\* C17: the process exits with code 0 exactly when every step of the run
\* succeeded (or the operator declined the update of a healthy stack, which ends
\* the run early and well); a run in which a step fails exits non-zero and
\* prints neither the success banner nor the website URL summary.
C17_ExitCodeTellsSuccess ==
    pc = "done" =>
        /\ outcome.exit = 0 <=> outcome.kind = "SUCCESS"
        /\ outcome.exit = 0 <=> (EveryStepRan \/ LastAnswer = <<"update", "no">>)
        /\ EveryStepRan <=> BannerPrinted
        /\ outcome.exit # 0 =>
            /\ outcome.kind = "FAILURE"
            /\ outcome.error # "none"
            /\ ~BannerPrinted

\* a run has failed in the middle: non-zero exit, no banner
C17_Witness ==
    /\ pc = "done"
    /\ outcome.exit # 0
    /\ Issued("create-stack")
    /\ ~BannerPrinted

\* the call was issued by the invocation r
IssuedIn(r, name) == \E i \in 1..Len(r.calls) : r.calls[i] = name

\* the invocation r has described the stack and found it absent
ObservedAbsent(r) ==
    /\ r.pc # "idle"
    /\ IssuedIn(r, "describe-stacks")
    /\ r.seen.status = "NOT_FOUND"

\* the invocation r ended at its create call, which the service rejected
CreateRejected(r) ==
    /\ r.pc = "done"
    /\ r.calls[Len(r.calls)] = "create-stack"
    /\ r.outcome.error = "AlreadyExists"

\* the invocation r has written, built, uploaded and invalidated nothing
NoArtifactIn(r) ==
    /\ \A i \in 1..Len(r.log) :
            r.log[i].text \notin {"Frontend environment configured",
                                  "Frontend built successfully", "Deployment Complete!"}
    /\ ~IssuedIn(r, "s3 sync")
    /\ ~IssuedIn(r, "s3 cp")
    /\ ~IssuedIn(r, "create-invalidation")

\* both invocations are under way and both have found the stack absent
BothObservedAbsent == ObservedAbsent(RunView) /\ ObservedAbsent(other)

\* C18: when two runs execute at the same time on the same stack name and both
\* observe the stack ABSENT, at most one stack is created; the run whose create
\* call the service rejects ends there with a non-zero exit code, reports no
\* success and builds, uploads and invalidates nothing.
C18_ConcurrentCreateOneWins ==
    BothObservedAbsent =>
        /\ stackGen <= pre.stackGen + 1
        /\ stackGen <= other.pre.stackGen + 1
        /\ (IssuedIn(RunView, "create-stack") /\ IssuedIn(other, "create-stack")) =>
            /\ stackGen = pre.stackGen + 1
            /\ CreateRejected(RunView) \/ CreateRejected(other)
            /\ ~(CreateRejected(RunView) /\ CreateRejected(other))
        /\ \A r \in {RunView, other} :
            CreateRejected(r) =>
                /\ r.outcome.kind = "FAILURE"
                /\ r.outcome.exit # 0
                /\ NoArtifactIn(r)

\* two runs found the stack absent; one created it and completed, the other
\* was rejected
C18_Witness ==
    /\ BothObservedAbsent
    /\ CreateRejected(other)
    /\ pc = "done"
    /\ outcome.kind = "SUCCESS"
    /\ IssuedIn(RunView, "create-stack")
    /\ stackGen = 1

\* the deletion script is running and the operator has confirmed
DestroyConfirmed ==
    /\ pc \in {"destroy_bucket_name", "destroy_empty_bucket", "destroy_delete_stack",
               "destroy_wait", "destroy_report", "done"}
    /\ LastAnswer[1] = "destroy"
    /\ Confirms(LastAnswer[2])

\* C19: in the deletion script, after the operator has confirmed, the
\* delete-stack call is issued only when the website bucket has been emptied,
\* and the script reports the stack deleted only after the wait for the
\* deletion has completed successfully.
C19_DeleteAfterBucketEmptied ==
    DestroyConfirmed =>
        /\ Issued("delete-stack") => bucket = EmptyBucket
        /\ Logged("Stack deleted successfully") =>
            /\ Before("delete-stack", "wait stack-delete-complete")
            /\ stackStatus = "NOT_FOUND"
            /\ outcome.exit = 0

\* the second half alone: the report follows a successful wait
C19_ReportAfterWait ==
    (DestroyConfirmed /\ Logged("Stack deleted successfully")) =>
        /\ Before("delete-stack", "wait stack-delete-complete")
        /\ stackStatus = "NOT_FOUND"

\* the emptying failed, the stack deletion was issued all the same
C19_DeleteWithFullBucket ==
    /\ DestroyConfirmed
    /\ Issued("s3 rm")
    /\ Logged("S3 bucket emptied")
    /\ Issued("delete-stack")
    /\ bucket # EmptyBucket

\* the Dashboard shows the profile block on the screen
ProfileShown == route = "/dashboard" /\ DashboardView = "profile"

\* one of the two calls of checkUser has failed
CheckFailed == \E i \in 1..Len(dash.results) : ~dash.results[i][2]

\* both calls of checkUser of the mounted Dashboard have succeeded
BothSucceeded ==
    dash.results = <<<<"getCurrentUser", TRUE>>, <<"fetchUserAttributes", TRUE>>>>

\* C20: the dashboard shows the profile only after getCurrentUser and
\* fetchUserAttributes have both succeeded; whenever either of them fails the
\* user is navigated to /login and no profile data is shown.
C20_ProfileOnlyWhenAuthenticated ==
    /\ [](/\ dash.mounted <=> route = "/dashboard"
          /\ (dash.user # "none" \/ dash.attributes # NoAttributes \/ ProfileShown) =>
                /\ BothSucceeded
                /\ dash.user \in Users
                /\ dash.attributes \in {AttributesOf(u) : u \in Users}
          /\ CheckFailed =>
                /\ ~dash.mounted
                /\ ~ProfileShown
                /\ dash.user = "none"
                /\ dash.attributes = NoAttributes)
    /\ [][(dash'.results # dash.results /\ dash'.results # <<>>
           /\ ~dash'.results[Len(dash'.results)][2]) =>
                /\ route' = "/login"
                /\ ~ProfileShown']_vars

\* the profile of a signed-in user is on the screen
C20_Witness ==
    /\ ProfileShown
    /\ BothSucceeded
    /\ dash.user = session
    /\ dash.attributes = AttributesOf(session)

\* a check has failed at fetchUserAttributes and the user is at /login
C20_WitnessFailure ==
    /\ CheckFailed
    /\ dash.results = <<<<"getCurrentUser", TRUE>>, <<"fetchUserAttributes", FALSE>>>>
    /\ route = "/login"

\* request i of the login form, sent by the mounted form, settles in this step
SignInSettling(i) ==
    /\ i \in DOMAIN inflight
    /\ inflight[i].api = "signIn"
    /\ inflight[i].live
    /\ route = "/login"
    /\ inflight' \in {Settled(i), Orphaned(Settled(i))}

\* the step is a navigation of the login form to the verification page, now or
\* two seconds later, with the email that was entered
GoesToVerify(i) ==
    \/ /\ route' = "/verify-email"
       /\ form'.email = inflight[i].email
    \/ /\ route' = "/login"
       /\ [to |-> "/verify-email", email |-> inflight[i].email] \in timers' \ timers

\* C21: after a submit of the login form with non-empty email and password, a
\* successful sign-in navigates to /dashboard, an unverified email navigates to
\* /verify-email with the entered email, /dashboard is reached only when the
\* result says isSignedIn, and every other result leaves the user on the login
\* page with an error message shown.
C21_LoginOutcomes ==
    [][\A i \in DOMAIN inflight : SignInSettling(i) =>
            /\ ~Blank(inflight[i].email)
            /\ session' # session => route' = "/dashboard" /\ dash'.mounted
            /\ route' = "/dashboard" => session = "none" /\ session' # "none"
            /\ route' \in {"/login", "/dashboard", "/verify-email"}
            /\ route' = "/verify-email" => form'.email = inflight[i].email
            /\ (route' = "/login" /\ ~GoesToVerify(i)) =>
                    /\ form'.error # ""
                    /\ ~form'.loading]_vars

\* the part of C21 about /dashboard alone: the login form navigates there only
\* together with the start of a session
C21_DashboardOnlyWhenSignedIn ==
    [][\A i \in DOMAIN inflight : SignInSettling(i) =>
            /\ session' # session => route' = "/dashboard" /\ dash'.mounted
            /\ route' = "/dashboard" => session = "none" /\ session' # "none"
            /\ route' = "/verify-email" => form'.email = inflight[i].email]_vars

\* the mounted sign-up form hands a signUp request to Amplify in this step
SignUpSending ==
    /\ route = "/signup"
    /\ Len(inflight') = Len(inflight) + 1
    /\ inflight'[Len(inflight')].api = "signUp"

\* request i of the mounted sign-up form settles in this step
SignUpSettling(i) ==
    /\ i \in DOMAIN inflight
    /\ inflight[i].api = "signUp"
    /\ inflight[i].live
    /\ route = "/signup"
    /\ inflight' \in {Settled(i), Orphaned(Settled(i))}

\* C22: the sign-up form issues signUp only when first name, last name and
\* email are non-empty, the email is well-formed, the password has at least 8
\* characters with a lowercase letter, an uppercase letter, a digit and one of
\* !@#$%^&*, and equals its confirmation; it navigates to /verify-email only
\* after signUp has succeeded, and on a signUp error stays with an error shown.
C22_SignUpOnlyWhenValid ==
    /\ [][SignUpSending =>
            /\ form.data.firstName # <<>>
            /\ form.data.lastName # <<>>
            /\ form.data.email # <<>>
            /\ WellFormedEmail(form.data.email)
            /\ Len(form.data.password) >= 8
            /\ \E k \in DOMAIN form.data.password : form.data.password[k] \in LowerChars
            /\ \E k \in DOMAIN form.data.password : form.data.password[k] \in UpperChars
            /\ \E k \in DOMAIN form.data.password : form.data.password[k] \in DigitChars
            /\ \E k \in DOMAIN form.data.password : form.data.password[k] \in SpecialChars
            /\ form.data.password = form.data.confirmPassword
            /\ inflight'[Len(inflight')].email = form.data.email
            /\ form'.loading
            /\ route' = "/signup"]_vars
    /\ [][\A i \in DOMAIN inflight : SignUpSettling(i) =>
            IF signedUp' # signedUp
            THEN /\ route' = "/verify-email"
                 /\ form'.email = inflight[i].email
                 /\ signedUp' = signedUp \cup {inflight[i].email}
            ELSE /\ route' = "/signup"
                 /\ form'.error # ""
                 /\ ~form'.loading]_vars
    /\ [][(route = "/signup" /\ route' = "/verify-email") =>
            \/ signedUp' # signedUp
            \/ form'.email = <<>>
            \/ \E t \in timers : t.to = "/verify-email"
            \/ \E i \in DOMAIN inflight : ~inflight[i].live]_vars

\* a valid sign-up has been accepted and the verification page shows its email
C22_Witness ==
    /\ route = "/verify-email"
    /\ form.email = AliceEmail
    /\ AliceEmail \in signedUp
    /\ inflight = <<>>
    /\ timers = {}

\* a sign-up was refused by the user pool and the form shows the error
C22_WitnessError ==
    /\ route = "/signup"
    /\ form.data = GoodSignUp
    /\ form.error = SignUpError("UsernameExistsException")
    /\ ~form.loading
    /\ inflight = <<>>

\* the requests in flight that the mounted form has sent
Live == {i \in DOMAIN inflight : inflight[i].live}

\* the routes of the five auth forms
FormRoutes == {"/login", "/signup", "/forgot-password", "/verify-email",
               "/reset-password"}

\* C29: in each auth form loading (resending, for the resend button) is true
\* before the request is sent and false again once it has settled, by success
\* or by exception; the submit control is disabled while loading, so at most
\* one request of the form is in flight.
C29_OneRequestInFlight ==
    /\ [](route \in FormRoutes =>
            /\ Cardinality(Live) <= 1
            /\ form.loading => SubmitDisabled
            /\ (form.loading \/ form.resending) <=> Live # {})
    /\ [][(route \in FormRoutes /\ Cardinality(Live') > Cardinality(Live)) =>
            (form'.loading \/ form'.resending)]_vars

\* the part of C29 about the submit handlers alone: loading is true exactly
\* while the request of handleSubmit is in flight, and there is at most one
C29_OneSubmitInFlight ==
    route \in FormRoutes =>
        /\ Cardinality({i \in Live : inflight[i].api # "resendSignUpCode"}) <= 1
        /\ form.loading => SubmitDisabled
        /\ form.loading <=> \E i \in Live : inflight[i].api # "resendSignUpCode"
        /\ form.resending <=> \E i \in Live : inflight[i].api = "resendSignUpCode"

\* the verification form has a confirmSignUp and a resendSignUpCode in flight
C29_TwoRequestsInFlight ==
    /\ route = "/verify-email"
    /\ Cardinality(Live) = 2
    /\ \E i \in Live : inflight[i].api = "confirmSignUp"
    /\ \E i \in Live : inflight[i].api = "resendSignUpCode"

\* the requests of the pages that take the email from the navigation state
EmailRequests == {"confirmSignUp", "resendSignUpCode", "confirmResetPassword"}

\* the page is one of the two that need the email, and none was passed
WithoutEmail == route \in NeedsEmail /\ form.email = <<>>

\* C30: on the verify-email and reset-password pages without an email in the
\* navigation state no confirmSignUp, resendSignUpCode or confirmResetPassword
\* request is ever issued, whatever is entered or clicked, and a message asking
\* the user to restart the flow is shown.
C30_NoRequestWithoutEmail ==
    /\ [](WithoutEmail =>
            /\ RestartNotice
            /\ Live = {}
            /\ ~form.loading /\ ~form.resending)
    /\ [][WithoutEmail => 
            /\ Len(inflight') <= Len(inflight)
            /\ \A i \in DOMAIN inflight' :
                    inflight'[i].api \in EmailRequests => ~inflight'[i].live]_vars
    /\ [](\A i \in DOMAIN inflight :
            inflight[i].api \in EmailRequests => inflight[i].email # <<>>)

\* the verification page was opened without an email, with nothing in flight
C30_Witness ==
    /\ route = "/verify-email"
    /\ WithoutEmail
    /\ RestartNotice
    /\ InputsDisabled /\ SubmitDisabled /\ ResendDisabled
    /\ inflight = <<>>

\* the same for the reset-password page
C30_WitnessReset ==
    /\ route = "/reset-password"
    /\ WithoutEmail
    /\ RestartNotice
    /\ InputsDisabled /\ SubmitDisabled
    /\ inflight = <<>>

\* the run has built the frontend and started to publish it
Publishing == pc # "idle" /\ Issued("s3 sync")

\* file f of the build of this run is in the bucket
Uploaded(f) == bucket[f].build = buildDir.id

\* C23: during every publish index.html and the service-worker file are
\* uploaded after every other file of the build: the bucket never holds the new
\* entry document while another file of the new build is not yet uploaded.
C23_EntryDocumentLast ==
    Publishing =>
        /\ Uploaded("index.html") => \A f \in Files \ NoCacheFiles : Uploaded(f)
        /\ Uploaded("service-worker.js") => \A f \in Files \ NoCacheFiles : Uploaded(f)

\* the part of C23 that holds: the files that aws s3 sync uploads are in the
\* bucket before the new index.html is
C23_SyncedFilesFirst ==
    Publishing =>
        /\ Uploaded("index.html") => \A f \in Files \ Excluded : Uploaded(f)
        /\ (Issued("s3 cp") /\ outcome.kind = "NONE") => Uploaded("index.html")

\* the new index.html is in the bucket and asset-manifest.json of the build is not
C23_IndexWithoutManifest ==
    /\ Publishing
    /\ Issued("s3 cp")
    /\ Uploaded("index.html")
    /\ Uploaded("main.js")
    /\ ~Uploaded("asset-manifest.json")

\* the status that the last describe call of the run answered is IN_PROGRESS
ObservedInProgress ==
    /\ pc # "idle"
    /\ Issued("describe-stacks")
    /\ Classify(seen.status) = "IN_PROGRESS"

\* the calls and prompts by which the controller acts on a decision
DecisionCalls == {"create-stack", "create-change-set", "execute-change-set",
                  "delete-stack"}

\* the run has neither decided nor reported anything but a timeout of its polling
Undecided ==
    /\ \A i \in 1..Len(calls) : calls[i] \notin DecisionCalls
    /\ prompts = 0
    /\ pc \in {"poll_stack", "done"}
    /\ outcome.kind # "SUCCESS"
    /\ outcome.kind = "FAILURE" => outcome.error = "Timeout"

\* C24: while the last observed stack state is IN_PROGRESS the controller takes
\* no create, update, delete or reuse decision and reports no outcome: it polls
\* until a terminal state is observed and only then acts.
C24_InProgressIsNoDecisionPoint == ObservedInProgress => Undecided

\* the part of C24 that holds: the interactive mode polls before it decides
C24_InteractivePollsFirst == (ObservedInProgress /\ ~args.force) => Undecided

\* a forced run has found the stack IN_PROGRESS and asked for a change set
C24_ForcedUpdateInProgress ==
    /\ ObservedInProgress
    /\ args.force
    /\ Issued("create-change-set")
    /\ outcome.kind = "FAILURE" /\ outcome.error = "NotUpdatable"

\* an interactive run found the stack IN_PROGRESS, polled, and then decided
C24_PolledThenDecided ==
    /\ pc # "idle" /\ ~args.force
    /\ CountOf("describe-stacks") >= 2
    /\ Classify(seen.status) # "IN_PROGRESS"
    /\ \E i \in 1..Len(calls) : calls[i] \in DecisionCalls

\* the run is in one of its waits
Waiting == pc \in WaitPcs

\* what the wait of the run waits for has not come about
StillInProgress ==
    IF pc = "wait_invalidation" THEN invalidations.completed < invalidations.issued
    ELSE stackStatus \in InProgressStates

\* C25: every wait on an IN_PROGRESS stack terminates: the polling ends when a
\* terminal status is observed or when the attempts run out, and then the run
\* fails with a Timeout error; under a service that never leaves IN_PROGRESS
\* the run still ends, with a failure.
C25_EveryWaitTerminates ==
    /\ Waiting ~> ~Waiting
    /\ [](Waiting => polls <= MaxPoll)
    /\ [][(Waiting /\ pc' = pc /\ polls' # polls) =>
            /\ polls' = polls + 1
            /\ StillInProgress]_<<pc, polls, outcome>>
    /\ [][(Waiting /\ StillInProgress /\ pc' # pc) =>
            /\ polls = MaxPoll
            /\ pc' = "done"
            /\ outcome'.kind = "FAILURE"
            /\ outcome'.error = "Timeout"
            /\ outcome'.exit # 0]_<<pc, polls, outcome>>

\* a wait has run out of attempts on a stack that is still being created
C25_Witness ==
    /\ pc = "done"
    /\ calls # <<>>
    /\ calls[Len(calls)] = "wait stack-create-complete"
    /\ stackStatus = "CREATE_IN_PROGRESS"
    /\ polls = MaxPoll
    /\ outcome.kind = "FAILURE"
    /\ outcome.error = "Timeout"

\* the operator has confirmed the deletion of a stack found FAILED
Recreating == \E i \in 1..Len(answers) : answers[i] = <<"recreate", "yes">>

\* C26: in a run where the operator confirms the recreation of a FAILED stack
\* the stack is deleted first, the run waits for the deletion to end, and the
\* create call is reached only with the stack ABSENT: never while the stack
\* exists or its deletion is in progress, and never without the delete call
\* and the wait before it.
C26_RecreateDeletesWaitsThenCreates ==
    Recreating =>
        /\ pc = "create_stack" => stackStatus = "NOT_FOUND"
        /\ pc \in {"delete_stack", "wait_delete"} => ~Issued("create-stack")
        /\ pc = "wait_delete" => Issued("delete-stack")
        /\ Issued("create-stack") =>
                /\ Before("delete-stack", "wait stack-delete-complete")
                /\ Before("wait stack-delete-complete", "create-stack")
                /\ ~Before("create-stack", "delete-stack")

\* a FAILED stack was deleted on the operator's word and created again
C26_Witness ==
    /\ Recreating
    /\ pc = "done"
    /\ Classify(seen.status) = "FAILED"
    /\ Before("wait stack-delete-complete", "create-stack")
    /\ stackStatus = "CREATE_COMPLETE"

\* the deletion did not end in ABSENT and the run ended without a create call
C26_WitnessDeleteFailed ==
    /\ Recreating
    /\ pc = "done"
    /\ Issued("wait stack-delete-complete")
    /\ ~Issued("create-stack")
    /\ stackStatus # "NOT_FOUND"

\* the run leaves the probe of the stack
Probed == pc \in {"describe", "poll_stack"} /\ pc' # pc

\* the describe call answered with no status the tool knows
NotClassified(raw) == raw \in DescribeErrors \/ Classify(raw) = "UNRECOGNIZED"

\* C27: of the answers of the describe call, not-found is classified ABSENT and
\* takes the run to the create path; any other error and any unrecognized status
\* end the run with a fatal configuration error, and take it neither to the
\* update path nor to the create path.
C27_ProbeClassifiesOrFails ==
    [][Probed =>
        /\ seen'.status = "NOT_FOUND" =>
                Classify(seen'.status) = "ABSENT" /\ pc' = "create_stack"
        /\ NotClassified(seen'.status) =>
                /\ pc' = "done"
                /\ outcome'.kind = "FAILURE"
                /\ outcome'.error = "ConfigurationError"
                /\ outcome'.exit # 0]_<<pc, seen, outcome>>

\* C27, the part that holds: a stack that is not found takes the run to the
\* create path, in either mode.
C27_NotFoundCreates ==
    [][(Probed /\ seen'.status = "NOT_FOUND") => pc' = "create_stack"]_<<pc, seen, outcome>>

\* C27, the part that holds for the interactive mode: an answer that is no
\* known status ends the run with a configuration error.
C27_InteractiveFails ==
    [][(Probed /\ ~args.force /\ NotClassified(seen'.status)) =>
            /\ pc' = "done"
            /\ outcome'.error = "ConfigurationError"]_<<pc, seen, outcome>>

\* a forced run took a refused describe call for a missing stack and created one
C27_RefusedTakenForAbsent ==
    /\ args.force
    /\ seen.status \in DescribeErrors
    /\ Issued("create-stack")
    /\ stackStatus = "CREATE_IN_PROGRESS"

\* a forced run took a stack that is rolling back for one to update
C27_UnlistedTakenForSucceeded ==
    /\ args.force
    /\ seen.status \in UnlistedStates
    /\ Issued("create-change-set")

\* a letter in lower case
LowerCase(c) ==
    IF c = "Y" THEN "y" ELSE IF c = "E" THEN "e" ELSE IF c = "S" THEN "s"
    ELSE IF c = "N" THEN "n" ELSE IF c = "O" THEN "o" ELSE c

\* the reply is "yes", compared without regard to case
IsYes(reply) ==
    [i \in 1..Len(Typed[reply]) |-> LowerCase(Typed[reply][i])] = <<"y", "e", "s">>

\* the operator has replied to the deletion script
DestroyReplied == answers # <<>> /\ LastAnswer[1] = "destroy"

\* the calls of the deletion script that change the account
DestroyingCalls == {"s3 rm", "delete-stack"}

C28_WitnessCapitals ==
    /\ DestroyReplied
    /\ LastAnswer[2] = "YES"
    /\ Issued("delete-stack")

====
